---- MODULE Spec2Model ----
(***************************************************************************)
(* Job scheduling of the Property Onboarding Tool.                         *)
(*                                                                         *)
(* The repository ships two applications.  main.py runs the heap based     *)
(* JobQueue of orchestration/job_queue.py; main_memory.py runs the         *)
(* MemoryStore queue of storage/memory_store.py driven by JobQueueMemory   *)
(* of orchestration/job_queue_memory.py.  The variable app says which of   *)
(* the two applications was started.                                       *)
(*                                                                         *)
(* The coroutines of a queue share one asyncio event loop: a coroutine     *)
(* runs until it awaits something that suspends, and an uncontended        *)
(* asyncio.Lock never suspends.  An action is one such run.                *)
(***************************************************************************)
EXTENDS Integers, Sequences, FiniteSets, TLC

\* ---- bounds of the model ----
NumJobs == 3
TimeStep == 30
MaxTime == 30
max_queue_size == 2
NumSubscribers == 1
NumMemJobs == 2
mem_max_concurrent_jobs == 2
MaxCancelRequests == 1
MaxRetryRequests == 1
\* the iterations of the worker loop of JobQueue that push a job back
MaxPutBacks == 1
MaxNodeRetries == 3
\* the errors of one run of the engine of the memory application that are
\* followed by another attempt
MaxRetriedErrors == 2
\* the configurations node_3 reports, each with a tenancy task of its own
MaxConfigurations == 5
\* the errors of one tenancy task that are followed by another attempt
MaxTenancyRetries == 1

\* ---- constants of the program ----
LOW == 1
NORMAL == 2
HIGH == 3
URGENT == 4
max_concurrent_jobs == 2
max_retries == 3
RetryDelayBase == 30
RetryDelayCap == 300
None == -1
job_max_retries == 3
max_concurrent_nodes == 4
max_retry_attempts == 3

JobIds == 1..NumJobs
MemJobIds == 1..NumMemJobs
JobPriority == {LOW, NORMAL, HIGH, URGENT}
Subscribers == 1..NumSubscribers

VARIABLES app,
          \* main.py: JobQueue
          now, db_queue, db_running_jobs, db_completed_jobs, db_failed_jobs,
          db_returned, db_job_failed_callbacks, db_failure_calls,
          db_pending_jobs, db_is_running,
          \* main_memory.py: MemoryStore, JobQueueMemory and the routes
          ms_jobs, ms_queue, ms_running_jobs, ms_progress_events,
          workers, worker_counter, tasks, request, requests_made,
          \* a retry request on another thread of the server
          second_request,
          \* one extraction node under the retry loop of its engine
          node_execution, node_loop,
          \* AsyncOrchestrationEngine of async_engine_memory.py at work on a job
          execution_strategy, node_executions, engine,
          \* the order in which this process iterates over a set of node ids
          hash_order,
          \* the job of orchestrate_extraction of async_engine.py
          db_job,
          \* PropertyDataProcessor.merge_node_data at work: the outputs of the
          \* nodes (objects the merge writes to), the results of the fanned-out
          \* tenancy extractions, what each call of the merge returned and
          \* what _merge_extraction_results returned
          successful_data, node_4_results, merge_calls, merge_outcome,
          \* the fan-out of execute_extraction over the configurations of
          \* node 3: the tenancy tasks it created
          tenancy_tasks,
          \* ProgressTracker: the JobProgress of the job it tracks
          job_progress,
          \* the node records of a job of main_memory.py and what the last
          \* query read off them
          node_records, observed

dbVars == <<now, db_queue, db_running_jobs, db_completed_jobs, db_failed_jobs,
            db_returned, db_job_failed_callbacks, db_failure_calls,
            db_pending_jobs, db_is_running>>
memVars == <<ms_jobs, ms_queue, ms_running_jobs, ms_progress_events,
             workers, worker_counter, tasks, request, requests_made, second_request>>
nodeVars == <<node_execution, node_loop>>
engineVars == <<execution_strategy, node_executions, engine, hash_order, db_job>>
mergeVars == <<successful_data, node_4_results, merge_calls, merge_outcome,
              tenancy_tasks>>
trackerVars == <<job_progress>>
recordVars == <<node_records, observed>>
vars == <<app, dbVars, memVars, nodeVars, engineVars, mergeVars, trackerVars,
          recordVars>>

\* ---- QueuedJob and the heap of JobQueue --------------------------------

\* QueuedJob(job_id, priority, created_at, scheduled_at): max_retries and
\* retry_count take their dataclass defaults; executions counts the runs of
\* the engine for this queued job.
QueuedJob(job_id, priority, created_at, scheduled_at) ==
    [job_id |-> job_id, priority |-> priority, created_at |-> created_at,
     scheduled_at |-> scheduled_at, max_retries |-> max_retries,
     retry_count |-> 0, executions |-> 0]

\* "self.scheduled_at or self.created_at"
scheduled(qj) ==
    IF qj.scheduled_at # None THEN qj.scheduled_at ELSE qj.created_at

\* QueuedJob.__lt__ with the priorities compared the other way round.
QueuedJob_lt_ascending(self, other) ==
    IF self.priority # other.priority
    THEN self.priority < other.priority
    ELSE scheduled(self) < scheduled(other)

\* QueuedJob.__lt__
QueuedJob_lt(self, other) ==
    IF self.priority # other.priority
    THEN self.priority > other.priority
    ELSE scheduled(self) < scheduled(other)

\* heapq._siftdown(heap, startpos, pos); positions count from 0.
RECURSIVE siftdown_loop(_, _, _, _)
siftdown_loop(heap, startpos, pos, newitem) ==
    IF pos > startpos
    THEN LET parentpos == (pos - 1) \div 2
             parent == heap[parentpos + 1]
         IN  IF QueuedJob_lt(newitem, parent)
             THEN siftdown_loop([heap EXCEPT ![pos + 1] = parent],
                                startpos, parentpos, newitem)
             ELSE [heap EXCEPT ![pos + 1] = newitem]
    ELSE [heap EXCEPT ![pos + 1] = newitem]

siftdown(heap, startpos, pos) ==
    siftdown_loop(heap, startpos, pos, heap[pos + 1])

\* heapq._siftup(heap, pos)
RECURSIVE siftup_loop(_, _, _, _)
siftup_loop(heap, startpos, pos, newitem) ==
    LET endpos == Len(heap)
        childpos == 2 * pos + 1
    IN  IF childpos < endpos
        THEN LET rightpos == childpos + 1
                 c == IF rightpos < endpos
                         /\ ~QueuedJob_lt(heap[childpos + 1], heap[rightpos + 1])
                      THEN rightpos ELSE childpos
             IN  siftup_loop([heap EXCEPT ![pos + 1] = heap[c + 1]],
                             startpos, c, newitem)
        ELSE siftdown_loop([heap EXCEPT ![pos + 1] = newitem],
                           startpos, pos, newitem)

siftup(heap, pos) == siftup_loop(heap, pos, pos, heap[pos + 1])

\* heapq.heappush(heap, item)
heappush(heap, item) == siftdown(Append(heap, item), 0, Len(heap))

\* heapq.heappop(heap): the item returned and the heap left behind.
heappop_item(heap) == heap[1]

heappop_rest(heap) ==
    LET lastelt == heap[Len(heap)]
        rest == SubSeq(heap, 1, Len(heap) - 1)
    IN  IF rest = <<>> THEN rest
        ELSE siftup([rest EXCEPT ![1] = lastelt], 0)

\* heapq.heapify(x)
RECURSIVE heapify_loop(_, _)
heapify_loop(x, i) ==
    IF i < 0 THEN x ELSE heapify_loop(siftup(x, i), i - 1)

heapify(x) == heapify_loop(x, (Len(x) \div 2) - 1)

\* "del self._queue[i]"
del_at(s, i) == SubSeq(s, 1, i - 1) \o SubSeq(s, i + 1, Len(s))

queued_ids(q) == {q[i].job_id : i \in 1..Len(q)}

running_ids == {t.job_id : t \in db_running_jobs}

\* "self._running_jobs[job_id] = task" and "del self._running_jobs[job_id]":
\* the dictionary is the set of the queued jobs whose task is in flight.
set_running(running, qj) ==
    {t \in running : t.job_id # qj.job_id} \cup {qj}

del_running(running, job_id) == {t \in running : t.job_id # job_id}

\* ---- JobQueue ----------------------------------------------------------

\* What the last call of enqueue_job or dequeue_job returned, while that
\* call is the last thing that happened.
Returned(op, job_id, value) == [op |-> op, job_id |-> job_id, value |-> value]

NoReturn == Returned("none", None, FALSE)

\* The duplicate test without the running jobs.
already_queued_only(job_id) == job_id \in queued_ids(db_queue)

\* "any(qj.job_id == job_id for qj in self._queue) or job_id in
\* self._running_jobs"
already_queued_or_running(job_id) ==
    job_id \in queued_ids(db_queue) \/ job_id \in running_ids

\* The pool test with > in place of >=.
pool_is_full_off_by_one(running) ==
    Cardinality(running) > max_concurrent_jobs

\* "len(self._running_jobs) >= self.max_concurrent_jobs"
pool_is_full(running) == Cardinality(running) >= max_concurrent_jobs

\* "queued_job.retry_count < queued_job.max_retries"
should_retry(queued_job) == queued_job.retry_count < queued_job.max_retries

\* JobQueue.enqueue_job
enqueue_job(job_id, priority, scheduled_at) ==
    /\ app = "main"
    /\ now <= MaxTime
    /\ job_id \notin db_completed_jobs
    /\ job_id \notin {f.job_id : f \in db_failed_jobs}
    /\ IF Len(db_queue) >= max_queue_size
       THEN /\ db_returned' = Returned("enqueue_job", job_id, FALSE)
            /\ UNCHANGED <<db_queue, db_pending_jobs>>
       ELSE IF already_queued_or_running(job_id)
       THEN /\ db_returned' = Returned("enqueue_job", job_id, FALSE)
            /\ UNCHANGED <<db_queue, db_pending_jobs>>
       ELSE /\ db_queue' = heappush(db_queue,
                               QueuedJob(job_id, priority, now, scheduled_at))
            /\ db_pending_jobs' = db_pending_jobs + 1
            /\ db_returned' = Returned("enqueue_job", job_id, TRUE)
    /\ UNCHANGED <<app, trackerVars, recordVars, mergeVars, nodeVars, engineVars, memVars, now, db_running_jobs, db_completed_jobs, db_failed_jobs,
                   db_job_failed_callbacks, db_failure_calls, db_is_running>>

\* JobQueue.dequeue_job(job_id): removes the first entry of the list that
\* carries the id and restores the heap.
dequeue_job(job_id) ==
    /\ app = "main"
    /\ IF job_id \in queued_ids(db_queue)
       THEN LET i == CHOOSE k \in 1..Len(db_queue) :
                        /\ db_queue[k].job_id = job_id
                        /\ \A m \in 1..(k - 1) : db_queue[m].job_id # job_id
            IN  /\ db_queue' = heapify(del_at(db_queue, i))
                /\ db_pending_jobs' = db_pending_jobs - 1
                /\ db_returned' = Returned("dequeue_job", job_id, TRUE)
       ELSE /\ db_returned' = Returned("dequeue_job", job_id, FALSE)
            /\ UNCHANGED <<db_queue, db_pending_jobs>>
    /\ UNCHANGED <<app, trackerVars, recordVars, mergeVars, nodeVars, engineVars, memVars, now, db_running_jobs, db_completed_jobs, db_failed_jobs,
                   db_job_failed_callbacks, db_failure_calls, db_is_running>>

\* A worker loop that takes every job for due.
scheduled_later_never(queued_job) == FALSE

\* "queued_job.scheduled_at and queued_job.scheduled_at > datetime.utcnow()"
\* of _worker_loop
scheduled_later(queued_job) ==
    queued_job.scheduled_at # None /\ queued_job.scheduled_at > now

\* One iteration of JobQueue._worker_loop that takes a job off the heap
\* (_get_next_job, which takes one off pending_jobs) and finds it scheduled
\* for the future: the job is pushed back.  The iterations that push a job
\* back are followed up to MaxPutBacks.
worker_loop_put_back ==
    /\ app = "main"
    /\ db_is_running
    /\ ~pool_is_full(running_ids)
    /\ db_queue # <<>>
    /\ Len(db_queue) - db_pending_jobs < MaxPutBacks
    /\ LET queued_job == heappop_item(db_queue)
       IN  /\ scheduled_later(queued_job)
           /\ db_queue' = heappush(heappop_rest(db_queue), queued_job)
    /\ db_pending_jobs' = db_pending_jobs - 1
    /\ db_returned' = NoReturn
    /\ UNCHANGED <<app, trackerVars, recordVars, mergeVars, nodeVars, engineVars, memVars, now, db_running_jobs, db_completed_jobs, db_failed_jobs,
                   db_job_failed_callbacks, db_failure_calls, db_is_running>>

\* One iteration of JobQueue._worker_loop that takes a job off the heap and
\* starts it (_start_job_execution).
worker_loop_start ==
    /\ app = "main"
    /\ db_is_running
    /\ ~pool_is_full(running_ids)
    /\ db_queue # <<>>
    /\ db_pending_jobs' = db_pending_jobs - 1
    /\ LET queued_job == heappop_item(db_queue)
       IN  /\ ~scheduled_later(queued_job)
           /\ db_queue' = heappop_rest(db_queue)
           /\ db_running_jobs' = set_running(db_running_jobs,
                   [queued_job EXCEPT !.executions = @ + 1])
    /\ db_returned' = NoReturn
    /\ UNCHANGED <<app, trackerVars, recordVars, mergeVars, nodeVars, engineVars, memVars, now, db_completed_jobs, db_failed_jobs,
                   db_job_failed_callbacks, db_failure_calls, db_is_running>>

\* "min(300, 30 * (2 ** (queued_job.retry_count - 1)))"
retry_delay(retry_count) ==
    LET d == RetryDelayBase * (2 ^ (retry_count - 1))
    IN  IF RetryDelayCap < d THEN RetryDelayCap ELSE d

\* JobQueue._execute_job_with_monitoring after the engine returned a
\* successful result: _handle_job_completion, then the finally clause.
job_completion(t) ==
    /\ app = "main"
    /\ t \in db_running_jobs
    /\ db_completed_jobs' = db_completed_jobs \cup {t.job_id}
    /\ db_running_jobs' = del_running(db_running_jobs, t.job_id)
    /\ db_returned' = NoReturn
    /\ UNCHANGED <<app, trackerVars, recordVars, mergeVars, nodeVars, engineVars, memVars, now, db_queue, db_failed_jobs,
                   db_job_failed_callbacks, db_failure_calls, db_is_running,
                   db_pending_jobs>>

\* JobQueue._execute_job_with_monitoring after the engine returned a failed
\* result or raised: _handle_job_failure, then the finally clause.
job_failure(t) ==
    /\ app = "main"
    /\ t \in db_running_jobs
    /\ IF should_retry(t)
       THEN LET rc == t.retry_count + 1
                queued_job == [t EXCEPT !.retry_count = rc,
                                        !.scheduled_at = now + retry_delay(rc)]
            IN  /\ db_queue' = heappush(db_queue, queued_job)
                /\ db_pending_jobs' = db_pending_jobs + 1
                /\ UNCHANGED <<db_failed_jobs, db_failure_calls>>
       ELSE /\ db_failed_jobs' =
                   {f \in db_failed_jobs : f.job_id # t.job_id} \cup {t}
            /\ db_failure_calls' =
                   [s \in Subscribers |->
                       IF s \in db_job_failed_callbacks
                       THEN db_failure_calls[s] \cup {t.job_id}
                       ELSE db_failure_calls[s]]
            /\ UNCHANGED <<db_queue, db_pending_jobs>>
    /\ db_running_jobs' = del_running(db_running_jobs, t.job_id)
    /\ db_returned' = NoReturn
    /\ UNCHANGED <<app, trackerVars, recordVars, mergeVars, nodeVars, engineVars, memVars, now, db_completed_jobs, db_job_failed_callbacks,
                   db_is_running>>

\* The clock of datetime.utcnow() advances.
Tick ==
    /\ app = "main"
    /\ now < MaxTime
    /\ now' = now + TimeStep
    /\ db_returned' = NoReturn
    /\ UNCHANGED <<app, trackerVars, recordVars, mergeVars, nodeVars, engineVars, memVars, db_queue, db_running_jobs, db_completed_jobs,
                   db_failed_jobs, db_job_failed_callbacks, db_failure_calls, db_is_running,
                   db_pending_jobs>>

\* Nothing is running and every queued job is scheduled for later: the
\* worker loop sleeps until the earliest scheduled_at.
TickToScheduled ==
    /\ app = "main"
    /\ db_running_jobs = {}
    /\ db_queue # <<>>
    /\ \A i \in 1..Len(db_queue) : db_queue[i].scheduled_at > now
    /\ \E i \in 1..Len(db_queue) :
          /\ \A k \in 1..Len(db_queue) : db_queue[i].scheduled_at <= db_queue[k].scheduled_at
          /\ now' = db_queue[i].scheduled_at
    /\ db_returned' = NoReturn
    /\ UNCHANGED <<app, trackerVars, recordVars, mergeVars, nodeVars, engineVars, memVars, db_queue, db_running_jobs, db_completed_jobs,
                   db_failed_jobs, db_job_failed_callbacks, db_failure_calls, db_is_running,
                   db_pending_jobs>>

\* JobQueue.get_job_status over the given collections: running, then
\* completed, then failed, then queued, else None (written "None").
job_status_in(running_jobs, completed_jobs, failed_jobs, queue, job_id) ==
    IF job_id \in {t.job_id : t \in running_jobs} THEN "running"
    ELSE IF job_id \in completed_jobs THEN "completed"
    ELSE IF job_id \in {f.job_id : f \in failed_jobs} THEN "failed"
    ELSE IF job_id \in queued_ids(queue) THEN "queued"
    ELSE "None"

\* JobQueue.get_job_status
get_job_status(job_id) ==
    job_status_in(db_running_jobs, db_completed_jobs, db_failed_jobs,
                  db_queue, job_id)

\* JobQueue.stop: _is_running is cleared, the worker task is cancelled and
\* so is the task of every running job.  asyncio.CancelledError is not an
\* Exception, so the "except Exception" clause of
\* _execute_job_with_monitoring is passed over and only its finally clause
\* runs, which deletes the job from _running_jobs.
stop ==
    /\ app = "main"
    /\ db_is_running
    /\ db_is_running' = FALSE
    /\ db_running_jobs' = {}
    /\ db_returned' = NoReturn
    /\ UNCHANGED <<app, trackerVars, recordVars, mergeVars, nodeVars, engineVars, memVars, now, db_queue, db_completed_jobs,
                   db_failed_jobs, db_job_failed_callbacks, db_failure_calls,
                   db_pending_jobs>>

\* ---- MemoryStore ------------------------------------------------------

JobPriorityNames == {"low", "normal", "high", "urgent"}

\* "priority_order" of MemoryStore.enqueue_job
priority_order(p) ==
    CASE p = "urgent" -> 0
      [] p = "high" -> 1
      [] p = "normal" -> 2
      [] p = "low" -> 3

\* Python's None for the merged data of a job.
NoneData == <<>>

\* PropertyExtractionJob as MemoryStore.create_job builds it.  Percentages
\* are kept in tenths of a percent.
PropertyExtractionJob(priority) ==
    [status |-> "pending", priority |-> priority, retry_count |-> 0,
     max_retries |-> job_max_retries, progress_percentage |-> 0,
     current_phase |-> "initializing", merged_data |-> NoneData,
     quality_score |-> None]

\* The entry of an id that MemoryStore._jobs does not hold.
NoJob == [PropertyExtractionJob("normal") EXCEPT !.status = "none"]

seq_ids(q) == {q[i] : i \in 1..Len(q)}

\* "self._queue.insert(insert_index, job_id)"
insert_at(q, i, x) == SubSeq(q, 1, i - 1) \o <<x>> \o SubSeq(q, i, Len(q))

\* The insertion point MemoryStore.enqueue_job finds: before the first queued
\* job of lower priority, else at the end.
insert_index(jobs, q, job_id) ==
    LET lower == {i \in 1..Len(q) :
                    priority_order(jobs[job_id].priority)
                        < priority_order(jobs[q[i]].priority)}
    IN  IF lower = {} THEN Len(q) + 1
        ELSE CHOOSE i \in lower : \A k \in lower : i <= k

\* MemoryStore.enqueue_job: the queue and the jobs it leaves.
ms_enqueue_queue(jobs, q, job_id) ==
    IF job_id \notin seq_ids(q) /\ jobs[job_id].status # "none"
    THEN insert_at(q, insert_index(jobs, q, job_id), job_id)
    ELSE q

ms_enqueue_jobs(jobs, q, job_id) ==
    IF job_id \notin seq_ids(q) /\ jobs[job_id].status # "none"
    THEN [jobs EXCEPT ![job_id].status = "pending"]
    ELSE jobs

\* MemoryStore.add_progress_event: the event is appended and the job takes
\* the event's percentage.
add_event_of_node(events, job_id, event_type, pct, node_id) ==
    [events EXCEPT ![job_id] = Append(@, [event_type |-> event_type,
                                          progress_percentage |-> pct,
                                          node_id |-> node_id])]

\* The metadata of the event name no node.
NoNode == 0

add_event_log(events, job_id, event_type, pct) ==
    add_event_of_node(events, job_id, event_type, pct, NoNode)

add_event_jobs(jobs, job_id, pct) ==
    IF jobs[job_id].status # "none"
    THEN [jobs EXCEPT ![job_id].progress_percentage = pct]
    ELSE jobs

\* MemoryStore.mark_job_running
mark_job_running(jobs, job_id) ==
    IF jobs[job_id].status # "none"
    THEN [jobs EXCEPT ![job_id].status = "running"]
    ELSE jobs

\* MemoryStore.mark_job_completed
mark_job_completed(jobs, job_id) ==
    IF jobs[job_id].status # "none"
    THEN [jobs EXCEPT ![job_id].status = "completed",
                      ![job_id].progress_percentage = 1000]
    ELSE jobs

\* MemoryStore.mark_job_failed
mark_job_failed(jobs, job_id) ==
    IF jobs[job_id].status # "none"
    THEN [jobs EXCEPT ![job_id].status = "failed"]
    ELSE jobs

\* ---- routes/property_memory.py ------------------------------------------
\* A request runs on a Flask thread beside the thread of the queue; each
\* call it makes on the MemoryStore is atomic (the store's RLock), the
\* request as a whole is not.  request says how far the request in flight
\* has come.

Idle == [op |-> "idle", job_id |-> None]

unused_ids == {j \in MemJobIds : ms_jobs[j].status = "none"}

\* submit_extraction_job up to MemoryStore.create_job.  The uuid of the new
\* job is the least id not in use.
submit_create(job_id, priority) ==
    /\ app = "main_memory"
    /\ request = Idle
    /\ requests_made = [cancel |-> 0, retry |-> 0]
    /\ job_id \in unused_ids /\ \A k \in unused_ids : job_id <= k
    /\ ms_jobs' = [ms_jobs EXCEPT ![job_id] = PropertyExtractionJob(priority)]
    /\ ms_progress_events' = [ms_progress_events EXCEPT ![job_id] = <<>>]
    /\ request' = [op |-> "submit_created", job_id |-> job_id]
    /\ UNCHANGED <<app, trackerVars, recordVars, mergeVars, nodeVars, engineVars, dbVars, ms_queue, ms_running_jobs, workers,
                   worker_counter, tasks, requests_made, second_request>>

\* submit_extraction_job: "memory_store.enqueue_job(job.id)"
submit_enqueue ==
    /\ app = "main_memory"
    /\ request.op = "submit_created"
    /\ ms_queue' = ms_enqueue_queue(ms_jobs, ms_queue, request.job_id)
    /\ ms_jobs' = ms_enqueue_jobs(ms_jobs, ms_queue, request.job_id)
    /\ request' = [request EXCEPT !.op = "submit_enqueued"]
    /\ UNCHANGED <<app, trackerVars, recordVars, mergeVars, nodeVars, engineVars, dbVars, ms_running_jobs, ms_progress_events, workers,
                   worker_counter, tasks, requests_made, second_request>>

\* submit_extraction_job: the "job_submitted" event at 0.0
submit_event ==
    /\ app = "main_memory"
    /\ request.op = "submit_enqueued"
    /\ ms_progress_events' = add_event_log(ms_progress_events, request.job_id,
                                           "job_submitted", 0)
    /\ ms_jobs' = add_event_jobs(ms_jobs, request.job_id, 0)
    /\ request' = Idle
    /\ UNCHANGED <<app, trackerVars, recordVars, mergeVars, nodeVars, engineVars, dbVars, ms_queue, ms_running_jobs, workers,
                   worker_counter, tasks, requests_made, second_request>>

\* cancel_extraction_job up to "memory_store.update_job(job)"
cancel_mark(job_id) ==
    /\ app = "main_memory"
    /\ request = Idle
    /\ requests_made = [cancel |-> 0, retry |-> 0]
    /\ ms_jobs[job_id].status # "none"
    /\ ms_jobs[job_id].status \notin {"completed", "failed", "cancelled"}
    /\ ms_jobs' = [ms_jobs EXCEPT ![job_id].status = "cancelled"]
    /\ request' = [op |-> "cancel_marked", job_id |-> job_id]
    /\ requests_made.cancel < MaxCancelRequests
    /\ requests_made' = [requests_made EXCEPT !.cancel = @ + 1]
    /\ UNCHANGED <<app, trackerVars, recordVars, mergeVars, nodeVars, engineVars, dbVars, ms_queue, ms_running_jobs, ms_progress_events,
                   workers, worker_counter, tasks, second_request>>

\* cancel_extraction_job: the "job_cancelled" event at the job's percentage
cancel_event ==
    /\ app = "main_memory"
    /\ request.op = "cancel_marked"
    /\ LET pct == ms_jobs[request.job_id].progress_percentage
       IN  /\ ms_progress_events' = add_event_log(ms_progress_events,
                                        request.job_id, "job_cancelled", pct)
           /\ ms_jobs' = add_event_jobs(ms_jobs, request.job_id, pct)
    /\ request' = Idle
    /\ UNCHANGED <<app, trackerVars, recordVars, mergeVars, nodeVars, engineVars, dbVars, ms_queue, ms_running_jobs, workers,
                   worker_counter, tasks, requests_made, second_request>>

\* retry_extraction_job up to "memory_store.update_job(job)"
retry_reset_upto(job_id, max_requests) ==
    /\ app = "main_memory"
    /\ request = Idle
    /\ requests_made.cancel = 0
    /\ ms_jobs[job_id].status = "failed"
    /\ ~(ms_jobs[job_id].retry_count >= ms_jobs[job_id].max_retries)
    /\ requests_made.retry < max_requests
    /\ requests_made' = [requests_made EXCEPT !.retry = @ + 1]
    /\ ms_jobs' = [ms_jobs EXCEPT ![job_id].status = "pending",
                                  ![job_id].retry_count = @ + 1,
                                  ![job_id].progress_percentage = 0,
                                  ![job_id].current_phase = "initializing"]
    /\ request' = [op |-> "retry_reset", job_id |-> job_id]
    /\ UNCHANGED <<app, trackerVars, recordVars, mergeVars, nodeVars, engineVars, dbVars, ms_queue, ms_running_jobs, ms_progress_events,
                   workers, worker_counter, tasks, second_request>>

\* ... asked for MaxRetryRequests times at most.
retry_reset(job_id) == retry_reset_upto(job_id, MaxRetryRequests)

\* retry_extraction_job: "memory_store.enqueue_job(job_id)"
retry_enqueue ==
    /\ app = "main_memory"
    /\ request.op = "retry_reset"
    /\ ms_queue' = ms_enqueue_queue(ms_jobs, ms_queue, request.job_id)
    /\ ms_jobs' = ms_enqueue_jobs(ms_jobs, ms_queue, request.job_id)
    /\ request' = [request EXCEPT !.op = "retry_enqueued"]
    /\ UNCHANGED <<app, trackerVars, recordVars, mergeVars, nodeVars, engineVars, dbVars, ms_running_jobs, ms_progress_events, workers,
                   worker_counter, tasks, requests_made, second_request>>

\* retry_extraction_job: the "job_retried" event at 0.0
retry_event ==
    /\ app = "main_memory"
    /\ request.op = "retry_enqueued"
    /\ ms_progress_events' = add_event_log(ms_progress_events, request.job_id,
                                           "job_retried", 0)
    /\ ms_jobs' = add_event_jobs(ms_jobs, request.job_id, 0)
    /\ request' = Idle
    /\ UNCHANGED <<app, trackerVars, recordVars, mergeVars, nodeVars, engineVars, dbVars, ms_queue, ms_running_jobs, workers,
                   worker_counter, tasks, requests_made, second_request>>

\* The server of app.run handles each request on a thread of its own: a
\* second retry_extraction_job runs beside the request above.  Between its
\* test of the status and its writes the job object is not locked.

\* retry_extraction_job on the second thread: the job is found FAILED with
\* retries left.
second_retry_check(job_id) ==
    /\ app = "main_memory"
    /\ second_request = Idle
    /\ ms_jobs[job_id].status = "failed"
    /\ ~(ms_jobs[job_id].retry_count >= ms_jobs[job_id].max_retries)
    /\ second_request' = [op |-> "retry_checked", job_id |-> job_id]
    /\ UNCHANGED <<app, trackerVars, recordVars, mergeVars, nodeVars, engineVars, dbVars, ms_jobs, ms_queue,
                   ms_running_jobs, ms_progress_events, workers,
                   worker_counter, tasks, request, requests_made>>

\* retry_extraction_job on the second thread: the job is reset, up to
\* "memory_store.update_job(job)"
second_retry_reset ==
    /\ app = "main_memory"
    /\ second_request.op = "retry_checked"
    /\ ms_jobs' = [ms_jobs EXCEPT
                      ![second_request.job_id].status = "pending",
                      ![second_request.job_id].retry_count = @ + 1,
                      ![second_request.job_id].progress_percentage = 0,
                      ![second_request.job_id].current_phase = "initializing"]
    /\ second_request' = [second_request EXCEPT !.op = "retry_reset"]
    /\ UNCHANGED <<app, trackerVars, recordVars, mergeVars, nodeVars, engineVars, dbVars, ms_queue,
                   ms_running_jobs, ms_progress_events, workers,
                   worker_counter, tasks, request, requests_made>>

\* retry_extraction_job on the second thread:
\* "memory_store.enqueue_job(job_id)"
second_retry_enqueue ==
    /\ app = "main_memory"
    /\ second_request.op = "retry_reset"
    /\ ms_queue' = ms_enqueue_queue(ms_jobs, ms_queue, second_request.job_id)
    /\ ms_jobs' = ms_enqueue_jobs(ms_jobs, ms_queue, second_request.job_id)
    /\ second_request' = [second_request EXCEPT !.op = "retry_enqueued"]
    /\ UNCHANGED <<app, trackerVars, recordVars, mergeVars, nodeVars, engineVars, dbVars, ms_running_jobs,
                   ms_progress_events, workers, worker_counter, tasks,
                   request, requests_made>>

\* retry_extraction_job on the second thread: the "job_retried" event at
\* 0.0 and the response.
second_retry_event ==
    /\ app = "main_memory"
    /\ second_request.op = "retry_enqueued"
    /\ ms_progress_events' = add_event_log(ms_progress_events,
                                  second_request.job_id, "job_retried", 0)
    /\ ms_jobs' = add_event_jobs(ms_jobs, second_request.job_id, 0)
    /\ second_request' = [second_request EXCEPT !.op = "responded"]
    /\ UNCHANGED <<app, trackerVars, recordVars, mergeVars, nodeVars, engineVars, dbVars, ms_queue,
                   ms_running_jobs, workers, worker_counter, tasks, request,
                   requests_made>>

\* ---- JobQueueMemory ----------------------------------------------------

\* The methods extract_basic_info .. extract_tenancy_information of
\* GPTExtractionClient are coroutines that call the blocking
\* extract_property_data directly: while "await self.gpt_client.extract_..."
\* of _execute_node is in flight the thread of the event loop is inside that
\* call, and no other coroutine of the loop takes a step.
event_loop_free ==
    app = "main_memory" =>
        \A n \in DOMAIN engine.results : engine.results[n] # "running"

active_workers == {w \in workers : w.current_job_id # None}

\* One iteration of JobQueueMemory._process_queue that finds a job:
\* dequeue_job, _create_worker, _assign_job_to_worker (mark_job_running) and
\* the task of _process_job.
process_queue ==
    /\ app = "main_memory"
    /\ event_loop_free
    /\ Cardinality(active_workers) < mem_max_concurrent_jobs
    /\ ms_queue # <<>>
    /\ LET job_id == Head(ms_queue)
           worker_id == worker_counter + 1
       IN  /\ ms_queue' = Tail(ms_queue)
           /\ worker_counter' = worker_id
           /\ workers' = workers \cup
                  {[worker_id |-> worker_id, current_job_id |-> job_id]}
           /\ ms_running_jobs' = ms_running_jobs \cup {job_id}
           /\ ms_jobs' = mark_job_running(ms_jobs, job_id)
           /\ tasks' = tasks \cup
                  {[worker_id |-> worker_id, job_id |-> job_id, pc |-> "created"]}
    /\ UNCHANGED <<app, trackerVars, recordVars, mergeVars, nodeVars, engineVars, dbVars, ms_progress_events, request, requests_made, second_request>>

\* JobQueueMemory._process_job up to the call of the engine: the
\* "job_started" event at 5.0 and the phase.
process_job_start(t) ==
    /\ app = "main_memory"
    /\ t \in tasks /\ t.pc = "created"
    /\ event_loop_free
    /\ ms_progress_events' = add_event_log(ms_progress_events, t.job_id,
                                           "job_started", 50)
    /\ ms_jobs' = [add_event_jobs(ms_jobs, t.job_id, 50)
                      EXCEPT ![t.job_id].current_phase = "extracting_data"]
    /\ tasks' = (tasks \ {t}) \cup {[t EXCEPT !.pc = "extracting"]}
    /\ UNCHANGED <<app, trackerVars, recordVars, mergeVars, nodeVars, engineVars, dbVars, ms_queue, ms_running_jobs, workers,
                   worker_counter, request, requests_made, second_request>>

\* A queue whose workers keep their job.
release_worker_never(ws, worker_id) == ws

\* JobQueueMemory._release_worker
release_worker(ws, worker_id) ==
    {IF w.worker_id = worker_id THEN [w EXCEPT !.current_job_id = None] ELSE w
        : w \in ws}

\* JobQueueMemory._process_job from the return of the engine on, as it
\* leaves the jobs and the events of the store: a successful result is
\* stored, the job marked completed and "job_completed" logged at 100.0;
\* otherwise the job is marked failed and "job_failed" logged at the
\* percentage of the job.
finish_jobs(jobs, job_id, result) ==
    IF result.success
    THEN add_event_jobs(
             mark_job_completed(
                 [jobs EXCEPT ![job_id].merged_data = result.merged_data,
                              ![job_id].quality_score = result.quality_score,
                              ![job_id].current_phase = "completed"],
                 job_id),
             job_id, 1000)
    ELSE mark_job_failed(jobs, job_id)

finish_events(events, jobs, job_id, result) ==
    IF result.success
    THEN add_event_log(events, job_id, "job_completed", 1000)
    ELSE add_event_log(events, job_id, "job_failed",
                       jobs[job_id].progress_percentage)

\* JobQueueMemory._process_job from the return of the engine on: the result
\* is recorded, the worker released.
process_job_finish(t, result) ==
    /\ app = "main_memory"
    /\ t \in tasks /\ t.pc = "extracting"
    /\ event_loop_free
    /\ ms_jobs' = finish_jobs(ms_jobs, t.job_id, result)
    /\ ms_progress_events' =
           finish_events(ms_progress_events, ms_jobs, t.job_id, result)
    /\ ms_running_jobs' = ms_running_jobs \ {t.job_id}
    /\ workers' = release_worker(workers, t.worker_id)
    /\ tasks' = tasks \ {t}
    /\ UNCHANGED <<app, trackerVars, recordVars, mergeVars, nodeVars, engineVars, dbVars, ms_queue, worker_counter,
                   request, requests_made, second_request>>

\* JobQueueMemory._worker_manager: the workers idle for five minutes are
\* removed.
worker_manager ==
    /\ app = "main_memory"
    /\ event_loop_free
    /\ workers # active_workers
    /\ workers' = active_workers
    /\ UNCHANGED <<app, trackerVars, recordVars, mergeVars, nodeVars, engineVars, dbVars, ms_jobs, ms_queue, ms_running_jobs,
                   ms_progress_events, worker_counter, tasks, request,
                   requests_made, second_request>>

\* What AsyncOrchestrationEngine.execute_extraction returns, seen from the
\* queue.
EngineResults ==
    {[success |-> TRUE, merged_data |-> <<TRUE, TRUE, TRUE, TRUE>>,
      quality_score |-> 80],
     [success |-> FALSE, merged_data |-> NoneData, quality_score |-> None]}

\* ---- the retry loop of one extraction node -------------------------------
\* app = "main" runs AsyncOrchestrationEngine._execute_single_node of
\* orchestration/async_engine.py, app = "main_memory" runs
\* AsyncOrchestrationEngine._execute_node of
\* orchestration/async_engine_memory.py.

\* The message of an error, as the set of the substrings it contains among
\* those _categorize_error looks for.
ErrorMessages ==
    {{"timed out"}, {"429"}, {"rate limit"}, {"json", "invalid"}, {"json"},
     {"connection"}, {"network"}, {"timeout", "json", "parse"}, {}}

\* AsyncOrchestrationEngine._categorize_error of async_engine_memory.py
categorize_error(msg) ==
    IF "timeout" \in msg \/ "timed out" \in msg THEN "timeout"
    ELSE IF "rate limit" \in msg \/ "429" \in msg THEN "rate_limit"
    ELSE IF "json" \in msg /\ ("parse" \in msg \/ "unterminated" \in msg
                                   \/ "invalid" \in msg) THEN "json_parse"
    ELSE IF "connection" \in msg \/ "network" \in msg THEN "network"
    ELSE "unknown"

\* The categories _execute_node retries on.
retry_categories ==
    {"json_parse", "timeout", "network", "rate_limit", "connection"}

\* NodeExecution as created: PENDING, retry_count 0.
NodeExecution ==
    [status |-> "pending", retry_count |-> 0, error_category |-> "None"]

\* The locals of the retry loop: max_retries, attempt and last_error (None
\* at first, and no message holds the word "None"); calls counts the calls
\* of the extraction client.
NodeLoop(n) ==
    [pc |-> "created", max_retries |-> n, attempt |-> 0,
     last_error |-> {"None"}, calls |-> 0]

NoNodeLoop == [NodeLoop(0) EXCEPT !.pc = "none"]

\* The node is marked RUNNING and the loop is entered.
node_start ==
    /\ node_loop.pc = "created"
    /\ node_execution' = [node_execution EXCEPT !.status = "running"]
    /\ node_loop' = [node_loop EXCEPT !.pc = "attempting"]
    /\ UNCHANGED <<app, trackerVars, recordVars, mergeVars, dbVars, memVars, engineVars>>

\* One call of the extraction client that returns data.
node_attempt_ok ==
    /\ node_loop.pc = "attempting"
    /\ node_execution' = [node_execution EXCEPT !.status = "completed"]
    /\ node_loop' = [node_loop EXCEPT !.pc = "done", !.calls = @ + 1]
    /\ UNCHANGED <<app, trackerVars, recordVars, mergeVars, dbVars, memVars, engineVars>>

\* async_engine_memory.py: one call that raises an error of message msg.
execute_node_error(msg) ==
    /\ app = "main_memory"
    /\ node_loop.pc = "attempting"
    /\ LET category == categorize_error(msg)
           attempt == node_loop.attempt
       IN  IF attempt < node_loop.max_retries /\ category \in retry_categories
           THEN /\ node_execution' =
                      [node_execution EXCEPT !.retry_count = attempt,
                                             !.error_category = category]
                /\ node_loop' = [node_loop EXCEPT !.pc = "sleeping",
                                                  !.last_error = msg,
                                                  !.calls = @ + 1]
           ELSE /\ node_execution' =
                      [node_execution EXCEPT !.retry_count = attempt,
                                             !.error_category = category,
                                             !.status = "failed"]
                /\ node_loop' = [node_loop EXCEPT !.pc = "done",
                                                  !.last_error = msg,
                                                  !.calls = @ + 1]
    /\ UNCHANGED <<app, trackerVars, recordVars, mergeVars, dbVars, memVars, engineVars>>

\* async_engine.py: one call that returns a failed result (returned) or
\* raises; msg is the error.
execute_single_node_error(msg, returned) ==
    /\ app = "main"
    /\ node_loop.pc = "attempting"
    /\ IF node_loop.attempt = node_loop.max_retries
       THEN /\ node_execution' = [node_execution EXCEPT !.status = "failed"]
            /\ node_loop' = [node_loop EXCEPT !.pc = "done",
                                              !.last_error = msg,
                                              !.calls = @ + 1]
       ELSE /\ node_execution' =
                  IF returned
                  THEN [node_execution EXCEPT !.status = "failed"]
                  ELSE node_execution
            /\ node_loop' = [node_loop EXCEPT !.pc = "sleeping",
                                              !.last_error = msg,
                                              !.calls = @ + 1]
    /\ UNCHANGED <<app, trackerVars, recordVars, mergeVars, dbVars, memVars, engineVars>>

\* One call of the extraction client that does not return: the loops of
\* _execute_node and _execute_single_node await the call itself, without
\* "asyncio.wait_for" and without a look at NodeTask.timeout, and have no
\* step to take while the call is out.
extraction_call_hangs ==
    /\ node_loop.pc = "attempting"
    /\ node_loop' = [node_loop EXCEPT !.pc = "hung", !.calls = @ + 1]
    /\ UNCHANGED <<app, trackerVars, recordVars, mergeVars, dbVars, memVars, engineVars, node_execution>>

\* The sleep before the next attempt is over.
node_next_attempt ==
    /\ node_loop.pc = "sleeping"
    /\ node_loop' = [node_loop EXCEPT !.pc = "attempting", !.attempt = @ + 1]
    /\ UNCHANGED <<app, trackerVars, recordVars, mergeVars, dbVars, memVars, engineVars, node_execution>>

\* ---- AsyncOrchestrationEngine.execute_extraction (async_engine_memory.py) --

\* node_1 .. node_4 of extraction_nodes; node_4 alone has dependencies.
ExtractionNodes == 1..4

\* extraction_nodes without a dependency.
no_dependencies(n) == {}

\* "dependencies" of extraction_nodes
dependencies(n) == IF n = 4 THEN {1, 3} ELSE {}

ExecutionStrategies == {"parallel", "sequential", "hybrid"}

\* The engine between two jobs.  results[n] says how far the task of node n
\* has come: "none" before it starts, "running" while its call of the
\* extraction client is in flight, "sleeping" during the backoff of a
\* retry, then "ok" or "failed"; attempt[n] is the local of its retry loop.
\* The tasks of the fan-out of node_4 follow the four nodes in results and
\* attempt; collected holds those whose result execute_extraction has taken.
NoExtraction ==
    [pc |-> "idle", base |-> 0, results |-> <<>>, attempt |-> <<>>,
     collected |-> {}]

\* The enumerations of a set, as sequences.
Orderings(S) ==
    {f \in [1..Cardinality(S) -> S] : \A i, k \in DOMAIN f : f[i] = f[k] => i = k}

seq_range(s) == {s[i] : i \in DOMAIN s}

\* _get_execution_order: round after round the nodes of "remaining" whose
\* dependencies are ordered are appended, in the order the iteration of the
\* set "remaining" yields them.  That order is the one of a set of strings:
\* it is fixed within a process and differs from a process to another, so
\* the operator gives every order a process can compute.
RECURSIVE execution_orders(_, _)
execution_orders(ordered, remaining) ==
    IF remaining = {} THEN {ordered}
    ELSE LET with_deps == {n \in remaining : dependencies(n) \subseteq seq_range(ordered)}
             ready == IF with_deps = {} THEN remaining ELSE with_deps
         IN  UNION {execution_orders(ordered \o p, remaining \ ready) :
                       p \in Orderings(ready)}

get_execution_order == execution_orders(<<>>, ExtractionNodes)

\* round(n / d, 0) of Python for naturals: to the nearest, a tie to the even.
round_half_even(n, d) ==
    LET q == n \div d
        r == n % d
    IN  IF 2 * r < d THEN q
        ELSE IF 2 * r > d THEN q + 1
        ELSE IF q % 2 = 0 THEN q ELSE q + 1

\* JobQueueMemory._compute_overall_progress, in tenths of a percent, over
\* those of the node executions execs that belong to the job.
compute_overall_progress(execs, job_id, phase) ==
    LET node_execs == {i \in 1..Len(execs) : execs[i].job_id = job_id}
        total == Cardinality(node_execs)
        completed == Cardinality({i \in node_execs : execs[i].status = "completed"})
        running == Cardinality({i \in node_execs : execs[i].status = "running"})
    IN  IF total = 0 THEN (IF phase # "" THEN 100 ELSE 0)
        ELSE LET progress ==
                     100 + round_half_even(completed * 800 + running * 200, total)
                 floor == CASE phase = "merging_data" -> 800
                            [] phase = "competitor_analysis" -> 900
                            [] phase = "finalizing" -> 950
                            [] OTHER -> 0
                 raised == IF progress < floor THEN floor ELSE progress
             IN  IF raised > 1000 THEN 1000 ELSE raised

\* JobQueueMemory._progress_callback as it leaves the jobs: the percentage
\* of the job never goes below what it was.  phase is "None" when the
\* progress data name no current_phase.
progress_callback_jobs(jobs, execs, job_id, phase) ==
    IF jobs[job_id].status # "none"
    THEN LET ph == IF phase # "None" THEN phase ELSE jobs[job_id].current_phase
             computed_progress == compute_overall_progress(execs, job_id, ph)
             old == jobs[job_id].progress_percentage
         IN  [jobs EXCEPT ![job_id].progress_percentage =
                              IF old > computed_progress THEN old
                              ELSE computed_progress,
                          ![job_id].current_phase = ph]
    ELSE jobs

\* ... and the events: the event carries the percentage of the job.
progress_callback_events(events, jobs, execs, job_id, event_type, phase) ==
    add_event_log(events, job_id, event_type,
        progress_callback_jobs(jobs, execs, job_id, phase)[job_id]
            .progress_percentage)

\* No config_key.
NoKey == 0

\* "self.memory_store.create_node_execution" for every extraction node: the
\* record is added to those of the store, whatever it holds.
\* ... and the events of _execute_node, whose metadata name the node_id:
\* "node_4" for the tasks of the fan-out as for the fourth node.
node_id_of(n) == IF n \in ExtractionNodes THEN n ELSE 4

\* The events of _execute_node without their metadata.
progress_callback_events_of_no_node(events, jobs, execs, job_id, event_type, n) ==
    add_event_log(events, job_id, event_type,
        progress_callback_jobs(jobs, execs, job_id, "None")[job_id]
            .progress_percentage)

progress_callback_node_events(events, jobs, execs, job_id, event_type, n) ==
    add_event_of_node(events, job_id, event_type,
        progress_callback_jobs(jobs, execs, job_id, "None")[job_id]
            .progress_percentage,
        node_id_of(n))

create_node_executions(execs, job_id) ==
    execs \o [n \in ExtractionNodes |->
                 [job_id |-> job_id, node_type |-> n, config_key |-> NoKey,
                  status |-> "pending", retry_count |-> 0]]

set_node_status(execs, i, status) == [execs EXCEPT ![i].status = status]

\* The tasks execute_extraction creates for the configurations of node_3.
TenancyTasks == DOMAIN engine.results \ ExtractionNodes

\* The part of the engine a task belongs to: the strategy or the fan-out.
node_pc(n) == IF n \in ExtractionNodes THEN "nodes" ELSE "fan_out"

\* The place of node n in the order of _execute_sequential.
order_index(n) == CHOOSE i \in DOMAIN hash_order : hash_order[i] = n

node_is_over(n) == engine.results[n] \in {"ok", "failed"}

\* The order _execute_parallel, _execute_sequential and _execute_hybrid
\* start the nodes in.  The tasks of _execute_parallel, and those of the
\* nodes without dependencies of _execute_hybrid, are created in the order
\* of extraction_nodes and the loop starts them in that order, each when
\* the one before it waits or is over; node_4 of the hybrid strategy is
\* called after the tasks of the other nodes are awaited; a node of the
\* sequential strategy is called when the nodes before it in
\* _get_execution_order have returned.
may_start(n) ==
    /\ engine.results[n] = "none"
    /\ event_loop_free
    /\ CASE n \in TenancyTasks ->
              \A k \in TenancyTasks : k < n => engine.results[k] # "none"
         [] execution_strategy = "parallel" ->
              \A k \in 1..(n - 1) : engine.results[k] # "none"
         [] execution_strategy = "hybrid" ->
              IF dependencies(n) # {}
              THEN \A k \in ExtractionNodes : dependencies(k) = {} => node_is_over(k)
              ELSE \A k \in 1..(n - 1) : engine.results[k] # "none"
         [] execution_strategy = "sequential" ->
              \A i \in 1..(order_index(n) - 1) : node_is_over(hash_order[i])

\* The tasks created together with the one of node n.
created_with(n) ==
    CASE n \in TenancyTasks -> TenancyTasks
      [] execution_strategy = "parallel" -> ExtractionNodes
      [] execution_strategy = "hybrid" ->
           IF dependencies(n) # {} THEN {n}
           ELSE {k \in ExtractionNodes : dependencies(k) = {}}
      [] execution_strategy = "sequential" -> {n}

\* "await asyncio.sleep(retry_delay)" returns: the task goes on when the
\* loop is free, after the tasks that have been ready since they were
\* created.  The delay depends on the attempt alone and the tasks created
\* together run their attempts in the order of their creation, so that of
\* two of them sleeping after the same attempt the one created first wakes
\* first.
may_resume(n) ==
    /\ engine.results[n] = "sleeping"
    /\ event_loop_free
    /\ \A k \in created_with(n) :
          /\ engine.results[k] # "none"
          /\ ~(k < n /\ engine.results[k] = "sleeping"
                     /\ engine.attempt[k] = engine.attempt[n])

\* A merge that keeps nothing once a node is missing.
merge_all_or_nothing(node_data) ==
    [n \in ExtractionNodes |-> node_data = ExtractionNodes]

\* PropertyDataProcessor.merge_node_data: the merged structure has the
\* sections of every node; those of node n are filled from the data of n
\* when node_data holds n (merged[n]) and left empty otherwise.
merge_node_data(node_data) == [n \in ExtractionNodes |-> n \in node_data]

\* _merge_extraction_results: the data of the successful nodes are merged.
merge_extraction_results(results) ==
    merge_node_data({n \in ExtractionNodes : results[n] = "ok"})

\* _calculate_quality_score: 0.0 without a successful node, else a score
\* (80 stands for it).
calculate_quality_score(results) ==
    IF \E n \in ExtractionNodes : results[n] = "ok" THEN 80 ELSE 0

\* execute_extraction up to the first wait: the node executions of the job
\* are created.
execute_extraction_begin(t) ==
    /\ app = "main_memory"
    /\ t \in tasks /\ t.pc = "extracting"
    /\ engine.pc = "idle"
    /\ node_executions' = create_node_executions(node_executions, t.job_id)
    /\ engine' = [pc |-> "nodes", base |-> Len(node_executions),
                  results |-> [n \in ExtractionNodes |-> "none"],
                  attempt |-> [n \in ExtractionNodes |-> 0],
                  collected |-> {}]
    /\ UNCHANGED <<app, trackerVars, recordVars, mergeVars, dbVars, memVars, nodeVars, execution_strategy, hash_order, db_job>>

\* _execute_node up to the call of the extraction client: the node is
\* RUNNING, "node_started" is reported and the call is made.
execute_node_begin(t, n) ==
    /\ app = "main_memory"
    /\ t \in tasks /\ t.pc = "extracting"
    /\ n \in DOMAIN engine.results
    /\ engine.pc = node_pc(n) /\ may_start(n)
    /\ LET execs == set_node_status(node_executions, engine.base + n, "running")
       IN  /\ node_executions' = execs
           /\ ms_jobs' = progress_callback_jobs(ms_jobs, execs, t.job_id, "None")
           /\ ms_progress_events' =
                  progress_callback_node_events(ms_progress_events, ms_jobs,
                                                execs, t.job_id,
                                                "node_started", n)
    /\ engine' = [engine EXCEPT !.results[n] = "running"]
    /\ UNCHANGED <<app, trackerVars, recordVars, mergeVars, dbVars, nodeVars, execution_strategy, hash_order, db_job, ms_queue,
                   ms_running_jobs, workers, worker_counter, tasks, request,
                   requests_made, second_request>>

\* The end of _execute_node, with the status the node is left in and the
\* event reported; an error leaves its attempt in retry_count.
node_is_finished(t, n, ok) ==
    LET i == engine.base + n
        execs == [node_executions EXCEPT
                     ![i].status = IF ok THEN "completed" ELSE "failed",
                     ![i].retry_count = IF ok THEN @ ELSE engine.attempt[n]]
        event_type == IF ok THEN "node_completed" ELSE "node_failed"
    IN  /\ node_executions' = execs
        /\ ms_jobs' = progress_callback_jobs(ms_jobs, execs, t.job_id, "None")
        /\ ms_progress_events' =
               progress_callback_node_events(ms_progress_events, ms_jobs,
                                             execs, t.job_id, event_type, n)
        /\ engine' = [engine EXCEPT !.results[n] = IF ok THEN "ok" ELSE "failed"]

\* _execute_node from the return of the extraction client on: the node is
\* COMPLETED and "node_completed" is reported.
execute_node_end(t, n) ==
    /\ app = "main_memory"
    /\ t \in tasks /\ t.pc = "extracting"
    /\ n \in DOMAIN engine.results
    /\ engine.pc = node_pc(n) /\ engine.results[n] = "running"
    /\ node_is_finished(t, n, TRUE)
    /\ UNCHANGED <<app, trackerVars, recordVars, mergeVars, dbVars, nodeVars, execution_strategy, hash_order, db_job, ms_queue,
                   ms_running_jobs, workers, worker_counter, tasks, request,
                   requests_made, second_request>>

\* The errors of this run that were followed by another attempt.
RECURSIVE retried_errors(_)
retried_errors(nodes) ==
    IF nodes = {} THEN 0
    ELSE LET n == CHOOSE k \in nodes : TRUE
         IN  engine.attempt[n]
                 + (IF engine.results[n] = "sleeping" THEN 1 ELSE 0)
                 + retried_errors(nodes \ {n})

\* _execute_node when the extraction client raises an error of message
\* msg: the error is recorded; the task sleeps before another attempt when
\* attempts are left and the category is one of those retried, else the
\* node is FAILED and "node_failed" is reported.
execute_node_raises(t, n, msg) ==
    /\ app = "main_memory"
    /\ t \in tasks /\ t.pc = "extracting"
    /\ n \in DOMAIN engine.results
    /\ engine.pc = node_pc(n) /\ engine.results[n] = "running"
    /\ LET job == ms_jobs[t.job_id]
           max_attempts == IF job.status # "none" THEN job.max_retries ELSE 0
           attempt == engine.attempt[n]
       IN  IF attempt < max_attempts /\ categorize_error(msg) \in retry_categories
           THEN /\ IF n \in ExtractionNodes
                   THEN retried_errors(ExtractionNodes) < MaxRetriedErrors
                   ELSE attempt < MaxTenancyRetries
                /\ node_executions' =
                      [node_executions EXCEPT ![engine.base + n].retry_count = attempt]
                /\ engine' = [engine EXCEPT !.results[n] = "sleeping"]
                /\ UNCHANGED <<ms_jobs, ms_progress_events>>
           ELSE node_is_finished(t, n, FALSE)
    /\ UNCHANGED <<app, trackerVars, recordVars, mergeVars, dbVars, nodeVars, execution_strategy, hash_order, db_job, ms_queue,
                   ms_running_jobs, workers, worker_counter, tasks, request,
                   requests_made, second_request>>

\* _execute_node after the sleep of a retry: the next call of the
\* extraction client is made.
execute_node_retry(t, n) ==
    /\ app = "main_memory"
    /\ t \in tasks /\ t.pc = "extracting"
    /\ n \in DOMAIN engine.results
    /\ engine.pc = node_pc(n) /\ may_resume(n)
    /\ engine' = [engine EXCEPT !.results[n] = "running", !.attempt[n] = @ + 1]
    /\ UNCHANGED <<app, trackerVars, recordVars, mergeVars, dbVars, memVars, nodeVars, execution_strategy,
                   hash_order, db_job, node_executions>>

all_nodes_over == \A n \in ExtractionNodes : node_is_over(n)

\* execute_extraction after the strategy returned, when node_3 succeeded
\* and its data hold c configurations of different names: "fan_out_tenancy"
\* is reported, and a node execution and a task of _execute_node are created
\* for every configuration.
fan_out_tenancy(t, c) ==
    /\ app = "main_memory"
    /\ t \in tasks /\ t.pc = "extracting"
    /\ engine.pc = "nodes" /\ all_nodes_over
    /\ engine.results[3] = "ok"
    /\ engine.base + 4 = Len(node_executions)
    /\ ms_jobs' = progress_callback_jobs(ms_jobs, node_executions, t.job_id,
                                         "tenancy_extraction")
    /\ ms_progress_events' =
           progress_callback_events(ms_progress_events, ms_jobs, node_executions,
                                    t.job_id, "fan_out_tenancy", "tenancy_extraction")
    /\ node_executions' =
           node_executions \o [i \in 1..c |->
               [job_id |-> t.job_id, node_type |-> 4, config_key |-> i,
                status |-> "pending", retry_count |-> 0]]
    /\ engine' = [engine EXCEPT
                     !.pc = "fan_out",
                     !.results = @ \o [i \in 1..c |-> "none"],
                     !.attempt = @ \o [i \in 1..c |-> 0]]
    /\ UNCHANGED <<app, trackerVars, recordVars, mergeVars, dbVars, nodeVars, execution_strategy, hash_order, db_job,
                   ms_queue, ms_running_jobs, workers, worker_counter, tasks,
                   request, requests_made, second_request>>

\* "max_concurrent" of the fan-out: the tasks execute_extraction waits for.
max_concurrent == 3

\* active_tasks: the first max_concurrent of the tasks not yet collected.
active_tasks ==
    LET remaining == TenancyTasks \ engine.collected
    IN  {n \in remaining :
            Cardinality({k \in remaining : k < n}) < max_concurrent}

\* The progress callback called k times with "tenancy_progress".
RECURSIVE tenancy_progress_jobs(_, _, _)
tenancy_progress_jobs(jobs, job_id, k) ==
    IF k = 0 THEN jobs
    ELSE progress_callback_jobs(tenancy_progress_jobs(jobs, job_id, k - 1),
                                node_executions, job_id, "None")

RECURSIVE tenancy_progress_events(_, _, _, _)
tenancy_progress_events(events, jobs, job_id, k) ==
    IF k = 0 THEN events
    ELSE progress_callback_events(
             tenancy_progress_events(events, jobs, job_id, k - 1),
             tenancy_progress_jobs(jobs, job_id, k - 1),
             node_executions, job_id, "tenancy_progress", "None")

\* execute_extraction when "await asyncio.wait(...)" of the fan-out returns:
\* the results of the active tasks that are done are taken and
\* "tenancy_progress" is reported for each.  The tasks were ready before
\* execute_extraction is woken, and the loop runs them first.
fan_out_collect(t) ==
    /\ app = "main_memory"
    /\ t \in tasks /\ t.pc = "extracting"
    /\ engine.pc = "fan_out" /\ event_loop_free
    /\ \A n \in TenancyTasks : engine.results[n] # "none"
    /\ LET done == {n \in active_tasks : node_is_over(n)}
       IN  /\ done # {}
           /\ engine' = [engine EXCEPT !.collected = @ \cup done]
           /\ ms_jobs' = tenancy_progress_jobs(ms_jobs, t.job_id, Cardinality(done))
           /\ ms_progress_events' =
                  tenancy_progress_events(ms_progress_events, ms_jobs, t.job_id,
                                          Cardinality(done))
    /\ UNCHANGED <<app, trackerVars, recordVars, mergeVars, dbVars, nodeVars, execution_strategy, hash_order, db_job,
                   node_executions, ms_queue, ms_running_jobs, workers,
                   worker_counter, tasks, request, requests_made, second_request>>

\* The strategy and the fan-out are over.
nodes_are_merged ==
    \/ engine.pc = "nodes" /\ all_nodes_over
    \/ engine.pc = "fan_out" /\ engine.collected = TenancyTasks

\* execute_extraction from the return of the last node (when node_3 brought
\* no configurations) or of the fan-out to the wait for the competitor
\* analysis: "merging_data" is reported, the results are merged and
\* "competitor_analysis" is reported.
execute_extraction_merge(t) ==
    /\ app = "main_memory"
    /\ t \in tasks /\ t.pc = "extracting"
    /\ nodes_are_merged
    /\ LET jobs1 == progress_callback_jobs(ms_jobs, node_executions, t.job_id,
                                           "merging_data")
           events1 == progress_callback_events(ms_progress_events, ms_jobs,
                          node_executions, t.job_id, "merging_data",
                          "merging_data")
       IN  /\ ms_jobs' = progress_callback_jobs(jobs1, node_executions,
                                                t.job_id, "competitor_analysis")
           /\ ms_progress_events' =
                  progress_callback_events(events1, jobs1, node_executions,
                      t.job_id, "competitor_analysis", "competitor_analysis")
    /\ engine' = [engine EXCEPT !.pc = "analysing"]
    /\ UNCHANGED <<app, trackerVars, recordVars, mergeVars, dbVars, nodeVars, execution_strategy, hash_order, db_job,
                   node_executions, ms_queue, ms_running_jobs, workers,
                   worker_counter, tasks, request, requests_made, second_request>>

\* What execute_extraction returns when an exception reaches its outer
\* except clause.
extraction_error ==
    [success |-> FALSE, merged_data |-> NoneData, quality_score |-> None]

\* What execute_extraction returns otherwise.
extraction_result(results) ==
    [success |-> TRUE, merged_data |-> merge_extraction_results(results),
     quality_score |-> calculate_quality_score(results)]

\* execute_extraction raises before a node is started, before or after the
\* node executions are created: the outer except clause returns the error
\* and _process_job goes on with it.
execute_extraction_raises(t) ==
    /\ app = "main_memory"
    /\ t \in tasks /\ t.pc = "extracting"
    /\ \/ engine.pc = "idle"
       \/ engine.pc = "nodes" /\ \A n \in ExtractionNodes : engine.results[n] = "none"
    /\ engine' = NoExtraction
    /\ ms_jobs' = finish_jobs(ms_jobs, t.job_id, extraction_error)
    /\ ms_progress_events' =
           finish_events(ms_progress_events, ms_jobs, t.job_id, extraction_error)
    /\ ms_running_jobs' = ms_running_jobs \ {t.job_id}
    /\ workers' = release_worker(workers, t.worker_id)
    /\ tasks' = tasks \ {t}
    /\ UNCHANGED <<app, trackerVars, recordVars, mergeVars, dbVars, nodeVars, execution_strategy, hash_order, db_job,
                   node_executions, ms_queue, worker_counter, request,
                   requests_made, second_request>>

\* execute_extraction from the return of the competitor analysis on: the
\* quality score, "finalizing", the result; _process_job goes on with it.
execute_extraction_return(t) ==
    /\ app = "main_memory"
    /\ t \in tasks /\ t.pc = "extracting"
    /\ engine.pc = "analysing"
    /\ LET jobs1 == progress_callback_jobs(ms_jobs, node_executions, t.job_id,
                                           "finalizing")
           events1 == progress_callback_events(ms_progress_events, ms_jobs,
                          node_executions, t.job_id, "finalizing", "finalizing")
           result == extraction_result(engine.results)
       IN  /\ ms_jobs' = finish_jobs(jobs1, t.job_id, result)
           /\ ms_progress_events' = finish_events(events1, jobs1, t.job_id, result)
    /\ engine' = NoExtraction
    /\ ms_running_jobs' = ms_running_jobs \ {t.job_id}
    /\ workers' = release_worker(workers, t.worker_id)
    /\ tasks' = tasks \ {t}
    /\ UNCHANGED <<app, trackerVars, recordVars, mergeVars, dbVars, nodeVars, execution_strategy, hash_order, db_job,
                   node_executions, ms_queue, worker_counter, request,
                   requests_made, second_request>>

\* ---- AsyncOrchestrationEngine.orchestrate_extraction (async_engine.py) ----
\* The nodes 1..4 are node1_basic_info, node2_description,
\* node3_configuration and node4_tenancy; node_dependencies gives node 4 the
\* dependencies of node_4 above.  The extraction runs in the thread pool
\* (run_in_executor), so the loop goes on while a call is in flight.

\* The job of the database before the route creates it.
NoDbJob == [status |-> "none", merged_data |-> NoneData]

\* _get_dependency_level
RECURSIVE get_dependency_level(_)
get_dependency_level(n) ==
    IF dependencies(n) = {} THEN 0
    ELSE LET levels == {get_dependency_level(d) : d \in dependencies(n)}
         IN  (CHOOSE l \in levels : \A k \in levels : k <= l) + 1

\* _get_node_priority
get_node_priority(n) ==
    CASE n = 1 -> 4
      [] n = 2 -> 2
      [] n = 3 -> 3
      [] n = 4 -> 1

\* The key of _sort_tasks_by_dependencies orders a before b; sorted() keeps
\* the order of the tasks for equal keys.
sorts_before(a, b) ==
    \/ get_dependency_level(a) < get_dependency_level(b)
    \/ /\ get_dependency_level(a) = get_dependency_level(b)
       /\ \/ get_node_priority(a) > get_node_priority(b)
          \/ get_node_priority(a) = get_node_priority(b) /\ a < b

\* _sort_tasks_by_dependencies of the four node tasks
sort_tasks_by_dependencies ==
    CHOOSE s \in Orderings(ExtractionNodes) :
        \A i, k \in DOMAIN s : i < k => sorts_before(s[i], s[k])

sorted_index(n) ==
    CHOOSE i \in DOMAIN sort_tasks_by_dependencies :
        sort_tasks_by_dependencies[i] = n

\* The tasks that hold the semaphore of _execute_nodes_parallel.
in_semaphore ==
    {n \in ExtractionNodes : engine.results[n] \in {"running", "sleeping"}}

\* The order _execute_nodes_parallel, _execute_nodes_sequential and
\* _execute_nodes_hybrid start the nodes in: the tasks of a level start as
\* the semaphore admits them, a level of _execute_nodes_hybrid after the
\* level before it is awaited, a node of _execute_nodes_sequential after the
\* node before it in the sorted tasks has returned.
db_may_start(n) ==
    /\ engine.results[n] = "none"
    /\ CASE execution_strategy = "parallel" ->
              Cardinality(in_semaphore) < max_concurrent_nodes
         [] execution_strategy = "hybrid" ->
              /\ \A k \in ExtractionNodes :
                    get_dependency_level(k) < get_dependency_level(n)
                        => node_is_over(k)
              /\ Cardinality(in_semaphore) < max_concurrent_nodes
         [] execution_strategy = "sequential" ->
              \A i \in 1..(sorted_index(n) - 1) :
                  node_is_over(sort_tasks_by_dependencies[i])

\* routes/property.py, extract_property: the job and its four node
\* executions are created PENDING.
extract_property ==
    /\ app = "main"
    /\ db_job.status = "none"
    /\ db_job' = [db_job EXCEPT !.status = "pending"]
    /\ node_executions' = create_node_executions(node_executions, 1)
    /\ UNCHANGED <<app, trackerVars, recordVars, mergeVars, dbVars, memVars, nodeVars, execution_strategy, engine,
                   hash_order>>

\* orchestrate_extraction up to the execution of the nodes: the job is
\* IN_PROGRESS and the node tasks are created from its node executions.
orchestrate_extraction_begin ==
    /\ app = "main"
    /\ db_job.status = "pending"
    /\ engine.pc = "idle"
    /\ db_job' = [db_job EXCEPT !.status = "in_progress"]
    /\ engine' = [pc |-> "nodes", base |-> 0,
                  results |-> [n \in ExtractionNodes |-> "none"],
                  attempt |-> [n \in ExtractionNodes |-> 0],
                  collected |-> {}]
    /\ UNCHANGED <<app, trackerVars, recordVars, mergeVars, dbVars, memVars, nodeVars, execution_strategy,
                   node_executions, hash_order>>

\* _execute_single_node up to its first attempt: the node is RUNNING and
\* the extraction is handed to the thread pool.
execute_single_node_begin(n) ==
    /\ app = "main"
    /\ engine.pc = "nodes" /\ db_may_start(n)
    /\ node_executions' = set_node_status(node_executions, engine.base + n, "running")
    /\ engine' = [engine EXCEPT !.results[n] = "running"]
    /\ UNCHANGED <<app, trackerVars, recordVars, mergeVars, dbVars, memVars, nodeVars, execution_strategy, db_job,
                   hash_order>>

\* _execute_single_node when the extraction returns a result:
\* _update_node_execution_async records COMPLETED or FAILED; a failed
\* result is followed by another attempt while attempts are left.
execute_single_node_returns(n, success) ==
    /\ app = "main"
    /\ engine.pc = "nodes" /\ engine.results[n] = "running"
    /\ node_executions' = set_node_status(node_executions, engine.base + n,
                              IF success THEN "completed" ELSE "failed")
    /\ IF success
       THEN engine' = [engine EXCEPT !.results[n] = "ok"]
       ELSE IF engine.attempt[n] = max_retry_attempts
       THEN engine' = [engine EXCEPT !.results[n] = "failed"]
       ELSE engine' = [engine EXCEPT !.results[n] = "sleeping"]
    /\ UNCHANGED <<app, trackerVars, recordVars, mergeVars, dbVars, memVars, nodeVars, execution_strategy, db_job,
                   hash_order>>

\* _execute_single_node when the attempt raises: the node is FAILED at the
\* last attempt only, else another attempt follows.
execute_single_node_raises(n) ==
    /\ app = "main"
    /\ engine.pc = "nodes" /\ engine.results[n] = "running"
    /\ IF engine.attempt[n] = max_retry_attempts
       THEN /\ node_executions' =
                  set_node_status(node_executions, engine.base + n, "failed")
            /\ engine' = [engine EXCEPT !.results[n] = "failed"]
       ELSE /\ engine' = [engine EXCEPT !.results[n] = "sleeping"]
            /\ UNCHANGED node_executions
    /\ UNCHANGED <<app, trackerVars, recordVars, mergeVars, dbVars, memVars, nodeVars, execution_strategy, db_job,
                   hash_order>>

\* _execute_single_node after "await asyncio.sleep(...)": the next attempt.
execute_single_node_retry(n) ==
    /\ app = "main"
    /\ engine.pc = "nodes" /\ engine.results[n] = "sleeping"
    /\ engine' = [engine EXCEPT !.results[n] = "running", !.attempt[n] = @ + 1]
    /\ UNCHANGED <<app, trackerVars, recordVars, mergeVars, dbVars, memVars, nodeVars, execution_strategy, db_job,
                   node_executions, hash_order>>

\* orchestrate_extraction from the return of the nodes on: the data of the
\* successful nodes are merged and stored, the job is COMPLETED when a node
\* completed and FAILED otherwise.
orchestrate_extraction_end ==
    /\ app = "main"
    /\ engine.pc = "nodes" /\ all_nodes_over
    /\ LET completed_nodes == {n \in ExtractionNodes : engine.results[n] = "ok"}
       IN  db_job' =
               [status |-> IF completed_nodes # {} THEN "completed" ELSE "failed",
                merged_data |-> IF completed_nodes # {}
                                THEN merge_node_data(completed_nodes)
                                ELSE db_job.merged_data]
    /\ engine' = [engine EXCEPT !.pc = "done"]
    /\ UNCHANGED <<app, trackerVars, recordVars, mergeVars, dbVars, memVars, nodeVars, execution_strategy,
                   node_executions, hash_order>>

\* ---- PropertyDataProcessor (extraction/data_processor.py) ---------------

\* A string is the sequence of its characters; the letters of the model are
\* a, b, A and B, the other characters are the blank, "-" and "_".
lower(s) ==
    [i \in DOMAIN s |-> CASE s[i] = "A" -> "a" [] s[i] = "B" -> "b"
                          [] OTHER -> s[i]]

\* str.strip(chars)
RECURSIVE strip(_, _)
strip(s, chars) ==
    IF s # <<>> /\ Head(s) \in chars THEN strip(Tail(s), chars)
    ELSE IF s # <<>> /\ s[Len(s)] \in chars
    THEN strip(SubSeq(s, 1, Len(s) - 1), chars)
    ELSE s

\* re.sub(r"[^...]", repl, s) for a class of characters that are kept
sub_each(s, kept, repl) ==
    [i \in DOMAIN s |-> IF s[i] \in kept THEN s[i] ELSE repl]

\* re.sub(r"[^...]+", repl, s): a run of other characters becomes one repl
RECURSIVE sub_runs(_, _, _)
sub_runs(s, kept, repl) ==
    IF s = <<>> THEN <<>>
    ELSE IF Head(s) \in kept THEN <<Head(s)>> \o sub_runs(Tail(s), kept, repl)
    ELSE IF Len(s) > 1 /\ s[2] \notin kept THEN sub_runs(Tail(s), kept, repl)
    ELSE <<repl>> \o sub_runs(Tail(s), kept, repl)

\* "common_fields" of _resolve_basic_info_conflicts
common_fields == <<"name", "guarantor_required", "source", "source_link">>

\* The test of a conflict without the comparison of the two values.
is_conflict_of_any_two(node1_value, node4_value) ==
    node1_value # <<>> /\ node4_value # <<>>

\* "node1_value and node4_value and node1_value != node4_value"
is_conflict(node1_value, node4_value) ==
    node1_value # <<>> /\ node4_value # <<>> /\ node1_value # node4_value

\* _resolve_basic_info_conflicts from field i on: the basic_info it leaves
\* (it writes to the dictionary of node 1) and the two counts it returns.  A
\* field that is missing reads as the empty string.
RECURSIVE resolve_basic_info_conflicts(_, _, _)
resolve_basic_info_conflicts(node1_basic_info, node4_property_level, i) ==
    IF i > Len(common_fields)
    THEN [basic_info |-> node1_basic_info,
          conflicts_found |-> 0, conflicts_resolved |-> 0]
    ELSE LET field == common_fields[i]
             node1_value == node1_basic_info[field]
             node4_value == node4_property_level[field]
             found == is_conflict(node1_value, node4_value)
             written == IF found /\ strip(node1_value, {" "}) = <<>>
                        THEN [node1_basic_info EXCEPT ![field] = node4_value]
                        ELSE node1_basic_info
             rest == resolve_basic_info_conflicts(written,
                                                  node4_property_level, i + 1)
         IN  IF found
             THEN [rest EXCEPT !.conflicts_found = @ + 1,
                               !.conflicts_resolved = @ + 1]
             ELSE rest

\* norm_name of merge_node_data
norm_name(s) ==
    strip(sub_runs(strip(lower(s), {" "}), {"a", "b"}, "-"), {"-"})

\* tenancy_key of merge_node_data: "{base}|{price}" of an option that
\* carries tenancy_length_weeks and price_per_week.
tenancy_key(t) == <<t.tenancy_length_weeks, t.price_per_week>>

\* "Extend and deduplicate": the options of the target after the options of
\* a configuration of node 4 are added.
RECURSIVE extend_and_deduplicate(_, _)
extend_and_deduplicate(existing, tenancies) ==
    IF tenancies = <<>> THEN existing
    ELSE LET t == Head(tenancies)
             seen == {tenancy_key(existing[i]) : i \in DOMAIN existing}
         IN  extend_and_deduplicate(
                 IF tenancy_key(t) \in seen THEN existing
                 ELSE Append(existing, t),
                 Tail(tenancies))

\* cfg_by_name[key]: the last configuration of node 3 whose name has the
\* key, 0 when there is none.
cfg_by_name(configurations, key) ==
    LET named == {i \in DOMAIN configurations :
                     norm_name(configurations[i].name) = key}
    IN  IF named = {} THEN 0
        ELSE CHOOSE i \in named : \A k \in named : k <= i

\* "Attach tenancies": the configurations of node 3 after the options of the
\* configurations of node 4 are attached by name.  The configuration ids are
\* left out: a configuration of node 4 finds its target by its name.
RECURSIVE attach_tenancies(_, _)
attach_tenancies(configurations, n4_configs) ==
    IF n4_configs = <<>> THEN configurations
    ELSE LET n4 == Head(n4_configs)
             key == norm_name(n4.name)
             target == cfg_by_name(configurations, key)
         IN  attach_tenancies(
                 IF key = <<>> \/ target = 0 THEN configurations
                 ELSE [configurations EXCEPT ![target].tenancy_options =
                          extend_and_deduplicate(@, n4.tenancy_options)],
                 Tail(n4_configs))

Min(S) == CHOOSE x \in S : \A y \in S : x <= y

Max(S) == CHOOSE x \in S : \A y \in S : y <= x

\* "Recompute base min/max price per configuration from tenancy options":
\* the amounts written to Pricing, as numbers.
recompute_prices(configurations) ==
    [i \in DOMAIN configurations |->
        LET cfg == configurations[i]
            prices == {cfg.tenancy_options[k].price_per_week :
                          k \in DOMAIN cfg.tenancy_options}
        IN  IF prices = {} THEN cfg
            ELSE [cfg EXCEPT !.min_price = Min(prices),
                             !.max_price = Max(prices)]]

\* The order of Python on the characters and on the strings.
ord(c) ==
    CASE c = " " -> 32 [] c = "-" -> 45 [] c = "A" -> 65 [] c = "B" -> 66
      [] c = "_" -> 95 [] c = "a" -> 97 [] c = "b" -> 98

RECURSIVE str_lt(_, _)
str_lt(a, b) ==
    IF b = <<>> THEN FALSE
    ELSE IF a = <<>> THEN TRUE
    ELSE IF Head(a) # Head(b) THEN ord(Head(a)) < ord(Head(b))
    ELSE str_lt(Tail(a), Tail(b))

\* "sorted(cfgs, key=lambda c: normalize_name(c.get('name')))" of
\* _clean_merged_data: the sort is stable.
RECURSIVE sorted_by_name(_)
sorted_by_name(cfgs) ==
    IF cfgs = <<>> THEN <<>>
    ELSE LET key(c) == lower(strip(c.name, {" "}))
             first == CHOOSE i \in DOMAIN cfgs :
                         \A k \in DOMAIN cfgs :
                             /\ ~str_lt(key(cfgs[k]), key(cfgs[i]))
                             /\ k < i => str_lt(key(cfgs[i]), key(cfgs[k]))
         IN  <<cfgs[first]>> \o sorted_by_name(del_at(cfgs, first))

\* clean_dict of _clean_merged_data on the basic_info and on the
\* configurations: an entry that is empty or blank is removed (it reads as
\* the empty string here), and so is a configuration left with no entry.
clean_dict(basic_info, cfgs) ==
    [basic_info |->
         [f \in DOMAIN basic_info |->
             IF strip(basic_info[f], {" "}) = <<>> THEN <<>>
             ELSE basic_info[f]],
     configurations |->
         SelectSeq(cfgs, LAMBDA c : \/ c.name # <<>>
                                    \/ c.tenancy_options # <<>>
                                    \/ c.tenancies # <<>>
                                    \/ c.min_price # None)]

\* _calculate_completeness_with_fields of cleaned data, in thousandths:
\* every entry that is left is filled.
completeness_score(merged) ==
    IF merged = NoneData THEN 0
    ELSE IF \/ \E f \in DOMAIN merged.basic_info : merged.basic_info[f] # <<>>
            \/ merged.configurations # <<>>
    THEN 1000 ELSE 0

\* _calculate_merge_quality_score in thousandths: the completeness, the
\* share of the four nodes that brought data (the nodes 1, 3 and 4) and the
\* consistency of 0.9, weighted 0.4, 0.3 and 0.3.
calculate_merge_quality_score(merged) ==
    (completeness_score(merged) * 4 + 750 * 3 + 900 * 3) \div 10

\* The null of JSON in the place of a dictionary.
Null == [null |-> TRUE]

\* What merge_node_data returns when it raised.
MergeFailed ==
    [success |-> FALSE, merged_data |-> NoneData, conflicts_found |-> 0,
     conflicts_resolved |-> 0, quality_score |-> 0]

\* PropertyDataProcessor.merge_node_data on the outputs of the nodes 1, 3
\* and 4: what it returns (result) and the outputs as it leaves them
\* (written): it writes to the basic_info of node 1 and to the
\* configurations of node 3.  A basic_info that is null makes
\* _resolve_basic_info_conflicts raise.  The features, the location and the
\* description are left out.
merge_outputs(data) ==
    IF data.basic_info = Null
    THEN [result |-> MergeFailed, written |-> data]
    ELSE LET resolved == resolve_basic_info_conflicts(data.basic_info,
                                                      data.property_level, 1)
             attached == recompute_prices(
                             attach_tenancies(data.configurations,
                                              data.n4_configurations))
             named == [i \in DOMAIN attached |->
                          [attached[i] EXCEPT !.name = strip(@, {" "})]]
             merged == clean_dict(resolved.basic_info, sorted_by_name(named))
         IN  [result |-> [success |-> TRUE,
                          merged_data |-> merged,
                          conflicts_found |-> resolved.conflicts_found,
                          conflicts_resolved |-> resolved.conflicts_resolved,
                          quality_score |-> calculate_merge_quality_score(merged)],
              written |-> [data EXCEPT !.basic_info = resolved.basic_info,
                                       !.configurations = named]]

\* ---- the fan-out of the tenancy extraction (async_engine_memory.py) ------

\* "Deduplicate configurations by name": the names of unique_configs, in
\* the order of the configurations of node 3.
RECURSIVE unique_configs(_, _)
unique_configs(configurations, seen_names) ==
    IF configurations = <<>> THEN <<>>
    ELSE LET cfg_name == Head(configurations).name
             norm == strip(lower(cfg_name), {" "})
         IN  IF norm \in seen_names
             THEN unique_configs(Tail(configurations), seen_names)
             ELSE <<cfg_name>> \o unique_configs(Tail(configurations),
                                                 seen_names \cup {norm})

\* "cfg_key = re.sub(r'[^a-zA-Z0-9_]', '_', cfg_name)"
config_key(cfg_name) == sub_each(cfg_name, {"a", "b", "A", "B", "_"}, "_")

\* "results['node_4_results'][cfg_key] = res": the dictionary keeps a key
\* where it was first written.
store_result(results, cfg_key, res) ==
    IF \E i \in DOMAIN results : results[i].cfg_key = cfg_key
    THEN [i \in DOMAIN results |->
             IF results[i].cfg_key = cfg_key
             THEN [cfg_key |-> cfg_key, tenancies |-> res] ELSE results[i]]
    ELSE Append(results, [cfg_key |-> cfg_key, tenancies |-> res])

\* config_map[key] of _merge_extraction_results: the last configuration
\* that was stored under the key, 0 when there is none.
config_map(cfgs, key) ==
    LET keys(c) == {sub_each(strip(lower(c.name), {" "}),
                             {"a", "b", "A", "B"}, "_"),
                    strip(lower(c.name), {" "})}
        stored == {i \in DOMAIN cfgs : cfgs[i].name # <<>> /\ key \in keys(cfgs[i])}
    IN  IF stored = {} THEN 0
        ELSE CHOOSE i \in stored : \A k \in stored : k <= i

\* "Deduplicate tenancies by duration": the first option of each
\* tenancy_length is kept.
RECURSIVE unique_tenancies(_, _)
unique_tenancies(tenancies, seen_durations) ==
    IF tenancies = <<>> THEN <<>>
    ELSE LET duration == Head(tenancies).tenancy_length_weeks
         IN  IF duration \in seen_durations
             THEN unique_tenancies(Tail(tenancies), seen_durations)
             ELSE <<Head(tenancies)>> \o
                  unique_tenancies(Tail(tenancies),
                                   seen_durations \cup {duration})

\* "Second pass: match tenancy data to configurations": the results of the
\* fan-out are attached to the configurations of the merged data; the data
\* of a result carry no name of their own.
RECURSIVE match_tenancy_data(_, _)
match_tenancy_data(cfgs, results) ==
    IF results = <<>> THEN cfgs
    ELSE LET norm_key == sub_each(strip(lower(Head(results).cfg_key), {" "}),
                                  {"a", "b", "A", "B"}, "_")
             target == config_map(cfgs, norm_key)
             tenancies == Head(results).tenancies
         IN  match_tenancy_data(
                 IF target = 0 \/ tenancies = <<>> THEN cfgs
                 ELSE [cfgs EXCEPT ![target].tenancies =
                          unique_tenancies(@ \o tenancies, {})],
                 Tail(results))

\* ---- the merge at work --------------------------------------------------

MaxMergeCalls == 2

NoNodeData == <<>>

NoOutcome == [by |-> "none"]

\* PropertyDataProcessor.merge_node_data called on the outputs of the nodes
\* by a caller of its own, outside of a run of the engines, up to
\* MaxMergeCalls times on the same objects.
merge_node_data_call ==
    /\ successful_data # NoNodeData
    /\ merge_outcome = NoOutcome
    /\ ~tenancy_tasks.created
    /\ Len(merge_calls) < MaxMergeCalls
    /\ merge_calls' = Append(merge_calls,
                             [input |-> successful_data,
                              result |-> merge_outputs(successful_data).result])
    /\ successful_data' = merge_outputs(successful_data).written
    /\ UNCHANGED <<app, trackerVars, recordVars, dbVars, memVars, nodeVars, engineVars, node_4_results,
                   merge_outcome, tenancy_tasks>>

\* orchestrate_extraction of async_engine.py, "Merge data if we have
\* successful extractions" up to the end of the job: the merged data of a
\* merge that failed are the outputs of the nodes, at an accuracy of 0.5;
\* the job is COMPLETED since a node completed.
orchestrate_extraction_merge ==
    /\ app = "main"
    /\ successful_data # NoNodeData
    /\ merge_outcome = NoOutcome /\ merge_calls = <<>>
    /\ LET merge_result == merge_outputs(successful_data).result
       IN  /\ merge_calls' = <<[input |-> successful_data,
                                result |-> merge_result]>>
           /\ merge_outcome' =
                  [by |-> "orchestrate_extraction",
                   status |-> "completed",
                   extracted_data |-> merge_outputs(successful_data).written,
                   merged_data |-> IF merge_result.success
                                   THEN merge_result.merged_data
                                   ELSE successful_data,
                   quality_score |-> IF merge_result.success
                                     THEN merge_result.quality_score
                                     ELSE 500]
    /\ successful_data' = merge_outputs(successful_data).written
    /\ UNCHANGED <<app, trackerVars, recordVars, dbVars, memVars, nodeVars, engineVars, node_4_results,
                   tenancy_tasks>>

\* The quality score without the confidence of the nodes.
calculate_quality_score_of_completeness(merged) ==
    (completeness_score(merged) * 3) \div 10

\* No fan-out yet.  node_3 tells whether node 3 succeeded, and replies[k]
\* are the tenancy options that the extraction of the k-th task returns.
NoFanOut == [created |-> FALSE, node_3 |-> "ok", replies |-> <<>>, tasks |-> <<>>]

\* execute_extraction of async_engine_memory.py, "Enhanced fan-out for Node
\* 4" up to the creation of the tasks: when node 3 succeeded, a node
\* execution and a task of _execute_node are created for each of
\* unique_configs, under the key cfg_key.  The configurations have names.
fan_out_create ==
    /\ app = "main_memory"
    /\ successful_data # NoNodeData
    /\ ~tenancy_tasks.created /\ merge_calls = <<>>
    /\ LET configurations == IF tenancy_tasks.node_3 = "ok"
                             THEN successful_data.configurations ELSE <<>>
           names == unique_configs(configurations, {})
       IN  tenancy_tasks' =
               [tenancy_tasks EXCEPT
                   !.created = TRUE,
                   !.tasks = [k \in DOMAIN names |->
                                 [cfg_name |-> names[k],
                                  cfg_key |-> config_key(names[k]),
                                  stored |-> FALSE]]]
    /\ UNCHANGED <<app, trackerVars, recordVars, dbVars, memVars, nodeVars, engineVars, successful_data,
                   node_4_results, merge_calls, merge_outcome>>

\* "results['node_4_results'][cfg_key] = res" for the k-th task, when it is
\* done: the tasks are done in any order.
fan_out_store(k) ==
    /\ tenancy_tasks.created
    /\ k \in DOMAIN tenancy_tasks.tasks
    /\ ~tenancy_tasks.tasks[k].stored
    /\ node_4_results' = store_result(node_4_results,
                                      tenancy_tasks.tasks[k].cfg_key,
                                      tenancy_tasks.replies[k])
    /\ tenancy_tasks' = [tenancy_tasks EXCEPT !.tasks[k].stored = TRUE]
    /\ UNCHANGED <<app, trackerVars, recordVars, dbVars, memVars, nodeVars, engineVars, successful_data,
                   merge_calls, merge_outcome>>

\* "_calculate_quality_score" of async_engine_memory.py in thousandths, for
\* nodes of a confidence of 0.8: 70% confidence and 30% completeness of the
\* merged data.
calculate_quality_score_of(merged) ==
    (800 * 7 + completeness_score(merged) * 3) \div 10

\* execute_extraction of async_engine_memory.py from
\* _merge_extraction_results to its return: the merged data of a merge
\* that failed are {}; the results of the fan-out are attached to the
\* configurations of the merged data.
merge_extraction_results_call ==
    /\ app = "main_memory"
    /\ successful_data # NoNodeData
    /\ tenancy_tasks.created
    /\ \A k \in DOMAIN tenancy_tasks.tasks : tenancy_tasks.tasks[k].stored
    /\ merge_outcome = NoOutcome /\ merge_calls = <<>>
    /\ LET merge_result == merge_outputs(successful_data).result
           merged == IF merge_result.success
                     THEN [merge_result.merged_data EXCEPT !.configurations =
                              match_tenancy_data(@, node_4_results)]
                     ELSE NoneData
       IN  /\ merge_calls' = <<[input |-> successful_data,
                                result |-> merge_result]>>
           /\ merge_outcome' =
                  [by |-> "execute_extraction",
                   status |-> "completed",
                   extracted_data |-> merge_outputs(successful_data).written,
                   merged_data |-> merged,
                   quality_score |-> calculate_quality_score_of(merged)]
    /\ successful_data' = merge_outputs(successful_data).written
    /\ UNCHANGED <<app, trackerVars, recordVars, dbVars, memVars, nodeVars, engineVars, node_4_results,
                   tenancy_tasks>>

\* ---- ProgressTracker ------------------------------------------------------

\* "_node_weights" of ProgressTracker in hundredths, in the order of the
\* dictionary: node1_basic_info, node2_description, node3_configuration,
\* node4_tenancy.
node_weights == <<30, 20, 25, 25>>

\* "_phases" of ProgressTracker
phases ==
    <<"initializing", "extracting_data", "merging_data", "competitor_analysis",
      "finalizing">>

\* The calls of the tracker that are followed, and the phases that
\* update_phase is called with.
MaxTrackerCalls == 5

TrackedPhases == {"merging_data", "competitor_analysis"}

\* No job is tracked.
NoProgress == [status |-> "none"]

\* JobProgress and its NodeProgress as start_job_tracking builds them, with
\* the "job_started" event it emits.  Percentages are kept in tenths of a
\* percent; calls counts the calls that followed.
JobProgress ==
    [status |-> "pending",
     nodes |-> [n \in DOMAIN node_weights |->
                   [status |-> "pending", progress_percentage |-> 0]],
     overall_progress |-> 0,
     current_phase |-> "initializing",
     phases_completed |-> <<>>,
     nodes_completed |-> 0,
     nodes_failed |-> 0,
     events |-> <<"job_started">>,
     calls |-> 0]

\* The sum of a sequence of numbers.
RECURSIVE sum_of(_)
sum_of(s) == IF s = <<>> THEN 0 ELSE Head(s) + sum_of(Tail(s))

\* What a node adds to weighted_progress, weight by percentage.
weighted(node_progress, weight) ==
    IF node_progress.status = "completed" THEN weight * 1000
    ELSE IF node_progress.status = "running"
    THEN weight * node_progress.progress_percentage
    ELSE 0

\* ProgressTracker._calculate_overall_progress: the overall_progress it
\* writes, the weighted progress of the nodes and 2% for every completed
\* phase, 100% at most.
calculate_overall_progress(progress) ==
    LET weighted_progress ==
            sum_of([n \in DOMAIN progress.nodes |->
                       weighted(progress.nodes[n], node_weights[n])])
        base_progress == weighted_progress \div sum_of(node_weights)
        phase_bonus == Len(progress.phases_completed) * 20
    IN  IF base_progress + phase_bonus > 1000 THEN 1000
        ELSE base_progress + phase_bonus

\* ProgressTracker.start_job_tracking
start_job_tracking ==
    /\ app = "main"
    /\ job_progress = NoProgress
    /\ job_progress' = JobProgress
    /\ UNCHANGED <<app, recordVars, dbVars, memVars, nodeVars, engineVars, mergeVars>>

tracker_is_called ==
    /\ app = "main"
    /\ job_progress # NoProgress
    /\ job_progress.calls < MaxTrackerCalls

\* ProgressTracker.update_job_status
update_job_status(status) ==
    /\ tracker_is_called
    /\ LET progress ==
               IF status = "in_progress"
               THEN [job_progress EXCEPT !.status = status,
                                         !.current_phase = "extracting_data"]
               ELSE IF status = "completed"
               THEN [job_progress EXCEPT
                        !.status = status,
                        !.current_phase = "completed",
                        !.overall_progress = 1000,
                        !.phases_completed =
                            SubSeq(phases, 1, Len(phases) - 1) \o <<"completed">>]
               ELSE IF status = "failed"
               THEN [job_progress EXCEPT !.status = status,
                                         !.current_phase = "failed"]
               ELSE [job_progress EXCEPT !.status = status]
       IN  job_progress' =
               [progress EXCEPT
                   !.overall_progress = calculate_overall_progress(progress),
                   !.events = IF status = "completed"
                              THEN Append(@, "job_completed")
                              ELSE IF status = "failed"
                              THEN Append(@, "job_failed")
                              ELSE @,
                   !.calls = @ + 1]
    /\ UNCHANGED <<app, recordVars, dbVars, memVars, nodeVars, engineVars, mergeVars>>

\* ProgressTracker.update_node_status
update_node_status(n, status, retry_count) ==
    /\ tracker_is_called
    /\ n \in DOMAIN job_progress.nodes
    /\ LET progress ==
               IF status = "running"
               THEN [job_progress EXCEPT
                        !.nodes[n] = [status |-> status, progress_percentage |-> 100],
                        !.events = Append(@, "node_started")]
               ELSE IF status = "completed"
               THEN [job_progress EXCEPT
                        !.nodes[n] = [status |-> status, progress_percentage |-> 1000],
                        !.nodes_completed = @ + 1,
                        !.events = Append(@, "node_completed")]
               ELSE [job_progress EXCEPT
                        !.nodes[n] = [status |-> status, progress_percentage |-> 0],
                        !.nodes_failed = @ + 1,
                        !.events = Append(@, IF retry_count > 0 THEN "node_retry"
                                             ELSE "node_failed")]
       IN  job_progress' =
               [progress EXCEPT
                   !.overall_progress = calculate_overall_progress(progress),
                   !.calls = @ + 1]
    /\ UNCHANGED <<app, recordVars, dbVars, memVars, nodeVars, engineVars, mergeVars>>

\* ProgressTracker.update_phase
update_phase(phase) ==
    /\ tracker_is_called
    /\ LET old_phase == job_progress.current_phase
           in_phases == \E i \in DOMAIN phases : phases[i] = old_phase
           is_completed == \E i \in DOMAIN job_progress.phases_completed :
                               job_progress.phases_completed[i] = old_phase
       IN  job_progress' =
               [job_progress EXCEPT
                   !.current_phase = phase,
                   !.phases_completed = IF in_phases /\ ~is_completed
                                        THEN Append(@, old_phase) ELSE @,
                   !.events = IF phase = "merging_data"
                              THEN Append(@, "data_merge_started")
                              ELSE IF phase = "competitor_analysis"
                              THEN Append(@, "competitor_analysis_started")
                              ELSE @,
                   !.calls = @ + 1]
    /\ UNCHANGED <<app, recordVars, dbVars, memVars, nodeVars, engineVars, mergeVars>>

\* ---- a node record under a concurrent query (main_memory.py) --------------

\* The node executions of the job that is followed.
RecordNodes == 1..2

\* NodeExecution of memory_store.py as create_node_execution builds it:
\* start_time, end_time and extracted_data tell whether the field is set.
\* pc is the place of _execute_node, on the thread of the queue, in the
\* assignments it makes to the record.
NewNodeRecord ==
    [status |-> "pending", start_time |-> FALSE, end_time |-> FALSE,
     extracted_data |-> FALSE, pc |-> "created"]

\* What a query reads off a record.
fields_of(node_exec) ==
    [status |-> node_exec.status, start_time |-> node_exec.start_time,
     end_time |-> node_exec.end_time, extracted_data |-> node_exec.extracted_data]

NothingObserved == <<>>

\* One assignment of _execute_node to the record of node n, from place
\* from_pc to place to_pc.
assigns(n, from_pc, to_pc, node_exec) ==
    /\ app = "main_memory"
    /\ node_records[n].pc = from_pc
    /\ node_records' = [node_records EXCEPT ![n] = [node_exec EXCEPT !.pc = to_pc]]
    /\ UNCHANGED <<app, trackerVars, dbVars, memVars, nodeVars, engineVars,
                   mergeVars, observed>>

\* "node_execution.status = NodeStatus.RUNNING"
record_status_running(n) ==
    assigns(n, "created", "status_running",
            [node_records[n] EXCEPT !.status = "running"])

\* "node_execution.start_time = datetime.now()", and the update_node_execution
\* and the "node_started" report that follow, up to the call of the
\* extraction client.
record_start_time(n) ==
    assigns(n, "status_running", "calling",
            [node_records[n] EXCEPT !.start_time = TRUE])

\* The extraction client returned: "node_execution.status =
\* NodeStatus.COMPLETED"
record_status_completed(n) ==
    assigns(n, "calling", "status_completed",
            [node_records[n] EXCEPT !.status = "completed"])

\* "node_execution.end_time = datetime.now()" and the execution_time
record_end_time(n) ==
    assigns(n, "status_completed", "end_time_set",
            [node_records[n] EXCEPT !.end_time = TRUE])

\* "node_execution.extracted_data = extracted_data", up to the return
record_extracted_data(n) ==
    assigns(n, "end_time_set", "returned",
            [node_records[n] EXCEPT !.extracted_data = TRUE])

\* The extraction client raised: "node_execution.status = NodeStatus.FAILED"
record_status_failed(n) ==
    assigns(n, "calling", "status_failed",
            [node_records[n] EXCEPT !.status = "failed"])

\* "node_execution.end_time = datetime.now()" of the except clause, up to
\* the return
record_failed_end_time(n) ==
    assigns(n, "status_failed", "returned",
            [node_records[n] EXCEPT !.end_time = TRUE])

\* get_job_progress and get_extraction_job on a thread of the server: the
\* records that get_node_executions_for_job returns are the objects the
\* engine assigns to, read as they are at that time.
get_job_progress ==
    /\ app = "main_memory"
    /\ observed' = [n \in RecordNodes |-> fields_of(node_records[n])]
    /\ UNCHANGED <<app, trackerVars, dbVars, memVars, nodeVars, engineVars,
                   mergeVars, node_records>>

InitQueues ==
    /\ app \in {"main", "main_memory"}
    /\ now = 0
    /\ db_queue = <<>>
    /\ db_running_jobs = {}
    /\ db_completed_jobs = {}
    /\ db_failed_jobs = {}
    /\ db_returned = NoReturn
    /\ db_job_failed_callbacks = Subscribers
    /\ db_failure_calls = [s \in Subscribers |-> {}]
    /\ db_pending_jobs = 0
    /\ db_is_running = TRUE
    /\ ms_jobs = [j \in MemJobIds |-> NoJob]
    /\ ms_queue = <<>>
    /\ ms_running_jobs = {}
    /\ ms_progress_events = [j \in MemJobIds |-> <<>>]
    /\ workers = {}
    /\ worker_counter = 0
    /\ tasks = {}
    /\ request = Idle
    /\ requests_made = [cancel |-> 0, retry |-> 0]
    /\ second_request = Idle
    /\ job_progress = NoProgress
    /\ node_records = [n \in RecordNodes |-> NewNodeRecord]
    /\ observed = NothingObserved

\* No output of a node is at hand.
InitNoMerge ==
    /\ successful_data = NoNodeData
    /\ node_4_results = <<>>
    /\ merge_calls = <<>>
    /\ merge_outcome = NoOutcome
    /\ tenancy_tasks = NoFanOut

InitIdle ==
    /\ InitQueues
    /\ node_execution = NodeExecution
    /\ node_loop = NoNodeLoop
    /\ execution_strategy = "parallel"
    /\ node_executions = <<>>
    /\ engine = NoExtraction
    /\ hash_order = <<1, 2, 3, 4>>
    /\ db_job = NoDbJob

Init == InitIdle /\ InitNoMerge

\* A node of a job whose max_retries is any number up to MaxNodeRetries.
InitNode ==
    /\ InitQueues
    /\ InitNoMerge
    /\ node_execution = NodeExecution
    /\ \E n \in 0..MaxNodeRetries : node_loop = NodeLoop(n)
    /\ execution_strategy = "parallel"
    /\ node_executions = <<>>
    /\ engine = NoExtraction
    /\ hash_order = <<1, 2, 3, 4>>
    /\ db_job = NoDbJob

NextNode ==
    \/ node_start
    \/ node_attempt_ok
    \/ \E msg \in ErrorMessages : execute_node_error(msg)
    \/ \E msg \in ErrorMessages, returned \in BOOLEAN :
          execute_single_node_error(msg, returned)
    \/ extraction_call_hangs
    \/ node_next_attempt

SpecNode == InitNode /\ [][NextNode]_vars

\* The loop of a node takes its next step whenever it has one: the task of
\* the node is scheduled by the event loop as soon as what it awaits is done.
SpecNodeLive == InitNode /\ [][NextNode]_vars /\ WF_vars(NextNode)

\* The memory application serving one job under one of the execution
\* strategies, node by node.  The job's node_3 reports no configurations, so
\* that the tenancy fan-out of execute_extraction is not entered.
InitExtraction ==
    /\ InitQueues
    /\ InitNoMerge
    /\ app = "main_memory"
    /\ node_execution = NodeExecution
    /\ node_loop = NoNodeLoop
    /\ execution_strategy \in ExecutionStrategies
    /\ node_executions = <<>>
    /\ engine = NoExtraction
    /\ hash_order \in IF execution_strategy = "sequential"
                      THEN get_execution_order ELSE {<<1, 2, 3, 4>>}
    /\ db_job = NoDbJob

NextExtraction ==
    \/ submit_create(1, "normal")
    \/ submit_enqueue
    \/ submit_event
    \/ retry_reset(1)
    \/ retry_enqueue
    \/ retry_event
    \/ process_queue
    \/ \E t \in tasks : process_job_start(t)
    \/ \E t \in tasks : execute_extraction_begin(t)
    \/ \E t \in tasks, n \in ExtractionNodes : execute_node_begin(t, n)
    \/ \E t \in tasks, n \in ExtractionNodes : execute_node_end(t, n)
    \/ \E t \in tasks, n \in ExtractionNodes, msg \in ErrorMessages :
          execute_node_raises(t, n, msg)
    \/ \E t \in tasks, n \in ExtractionNodes : execute_node_retry(t, n)
    \/ \E t \in tasks : execute_extraction_merge(t)
    \/ \E t \in tasks : execute_extraction_raises(t)
    \/ \E t \in tasks : execute_extraction_return(t)

SpecExtraction == InitExtraction /\ [][NextExtraction]_vars

\* The memory application serving one job whose four nodes succeed at their
\* first attempt and whose node_3 reports up to MaxConfigurations
\* configurations: the tenancy fan-out of execute_extraction.  The queue
\* takes the job after the route has returned.
InitFanOut == InitExtraction /\ hash_order = <<1, 2, 3, 4>>

NextFanOut ==
    \/ submit_create(1, "normal")
    \/ submit_enqueue
    \/ submit_event
    \/ request = Idle /\ process_queue
    \/ \E t \in tasks : process_job_start(t)
    \/ \E t \in tasks : execute_extraction_begin(t)
    \/ \E t \in tasks, n \in 1..(4 + MaxConfigurations) : execute_node_begin(t, n)
    \/ \E t \in tasks, n \in 1..(4 + MaxConfigurations) : execute_node_end(t, n)
    \/ \E t \in tasks, n \in 5..(4 + MaxConfigurations), msg \in ErrorMessages :
          execute_node_raises(t, n, msg)
    \/ \E t \in tasks, n \in 5..(4 + MaxConfigurations) : execute_node_retry(t, n)
    \/ \E t \in tasks, c \in 1..MaxConfigurations : fan_out_tenancy(t, c)
    \/ \E t \in tasks : fan_out_collect(t)
    \/ \E t \in tasks : execute_extraction_merge(t)
    \/ \E t \in tasks : execute_extraction_return(t)

SpecFanOut == InitFanOut /\ [][NextFanOut]_vars

\* The database application running one job under one of the execution
\* strategies, node by node.
InitOrchestration ==
    /\ InitQueues
    /\ InitNoMerge
    /\ app = "main"
    /\ node_execution = NodeExecution
    /\ node_loop = NoNodeLoop
    /\ execution_strategy \in ExecutionStrategies
    /\ node_executions = <<>>
    /\ engine = NoExtraction
    /\ hash_order = <<1, 2, 3, 4>>
    /\ db_job = NoDbJob

NextOrchestration ==
    \/ extract_property
    \/ orchestrate_extraction_begin
    \/ \E n \in ExtractionNodes : execute_single_node_begin(n)
    \/ \E n \in ExtractionNodes, success \in BOOLEAN :
          execute_single_node_returns(n, success)
    \/ \E n \in ExtractionNodes : execute_single_node_raises(n)
    \/ \E n \in ExtractionNodes : execute_single_node_retry(n)
    \/ orchestrate_extraction_end

SpecOrchestration == InitOrchestration /\ [][NextOrchestration]_vars

\* One job in the engine of either application.
InitEngines == InitExtraction \/ InitOrchestration

NextEngines == NextExtraction \/ NextOrchestration

SpecEngines == InitEngines /\ [][NextEngines]_vars

NextDb ==
    \/ \E j \in JobIds, p \in JobPriority, s \in {None} :
          enqueue_job(j, p, s)
    \/ \E j \in JobIds : dequeue_job(j)
    \/ worker_loop_put_back
    \/ worker_loop_start
    \/ \E t \in db_running_jobs : job_completion(t)
    \/ \E t \in db_running_jobs : job_failure(t)
    \/ Tick
    \/ TickToScheduled

NextRoutes ==
    \/ \E j \in MemJobIds, p \in JobPriorityNames : submit_create(j, p)
    \/ submit_enqueue
    \/ submit_event
    \/ \E j \in MemJobIds : cancel_mark(j)
    \/ cancel_event
    \/ \E j \in MemJobIds : retry_reset(j)
    \/ retry_enqueue
    \/ retry_event

NextMem ==
    \/ NextRoutes
    \/ process_queue
    \/ \E t \in tasks : process_job_start(t)
    \/ \E t \in tasks, r \in EngineResults : process_job_finish(t, r)
    \/ worker_manager

Next == NextDb \/ NextMem

\* The job queue of main.py with stop_job_queue.
InitShutdown == Init /\ app = "main"

NextShutdown ==
    \/ \E j \in JobIds, p \in {NORMAL, URGENT} : enqueue_job(j, p, None)
    \/ \E j \in JobIds : dequeue_job(j)
    \/ worker_loop_put_back
    \/ worker_loop_start
    \/ \E t \in db_running_jobs : job_completion(t)
    \/ \E t \in db_running_jobs : job_failure(t)
    \/ Tick
    \/ TickToScheduled
    \/ stop

SpecShutdown == InitShutdown /\ [][NextShutdown]_vars

Spec == Init /\ [][Next]_vars

\* The event loops run the task of every job that was started, and the call
\* of the engine returns: _process_job of each worker and
\* _execute_job_with_monitoring of each job go on to their end.
WorkerIds == 1..(NumMemJobs + MaxRetryRequests)

TasksGoOn ==
    /\ \A w \in WorkerIds :
          WF_vars(\E t \in tasks :
                     /\ t.worker_id = w
                     /\ \/ process_job_start(t)
                        \/ \E r \in EngineResults : process_job_finish(t, r))
    /\ \A j \in JobIds :
          WF_vars(\E t \in db_running_jobs :
                     /\ t.job_id = j
                     /\ (job_completion(t) \/ job_failure(t)))

\* The two queues at work on jobs of the default priority that are neither
\* cancelled nor taken off the queue.
NextLive ==
    \/ \E j \in JobIds : enqueue_job(j, NORMAL, None)
    \/ worker_loop_put_back
    \/ worker_loop_start
    \/ \E t \in db_running_jobs : job_completion(t)
    \/ \E t \in db_running_jobs : job_failure(t)
    \/ Tick
    \/ TickToScheduled
    \/ \E j \in MemJobIds : submit_create(j, "normal")
    \/ submit_enqueue
    \/ submit_event
    \/ \E j \in MemJobIds : retry_reset(j)
    \/ retry_enqueue
    \/ retry_event
    \/ process_queue
    \/ \E t \in tasks : process_job_start(t)
    \/ \E t \in tasks, r \in EngineResults : process_job_finish(t, r)
    \/ worker_manager

SpecLive == Init /\ [][NextLive]_vars /\ TasksGoOn

\* ---- the inputs of the merge --------------------------------------------

BasicValues == {<<>>, <<" ">>, <<"A">>}
LevelValues == {<<>>, <<"A">>, <<"B">>}
ConfigNames == {<<"A">>, <<"a", " ">>, <<"A", " ", "B">>, <<"A", "-", "B">>}
MaxConfigs == 2
TenancyLengths == {44, 51}
Prices == {150, 160}
OtherFields == {"x", "y"}
MaxOptions == 2
ModelPrice == 100

SeqsUpTo(S, n) == UNION {[1..k -> S] : k \in 0..n}

FieldNames == {common_fields[i] : i \in DOMAIN common_fields}

\* A tenancy option after _postprocess_node4_normalize_tenancies: its
\* tenancy_length and its price are the texts of tenancy_length_weeks and
\* of price_per_week; other stands for its other fields.
TenancyOptions ==
    [tenancy_length_weeks : TenancyLengths, price_per_week : Prices,
     other : OtherFields]

\* A configuration of node 3 with the Pricing of the model.
Configuration(name) ==
    [name |-> name, tenancy_options |-> <<>>, tenancies |-> <<>>,
     min_price |-> ModelPrice, max_price |-> ModelPrice]

\* The outputs of the nodes 1 and 4 differ in the fields they share; node 3
\* found no configuration.
InitConflicts ==
    /\ InitIdle
    /\ \E b \in [FieldNames -> BasicValues] \cup {Null},
          p \in [FieldNames -> LevelValues] :
          successful_data = [basic_info |-> b, property_level |-> p,
                             configurations |-> <<>>,
                             n4_configurations |-> <<>>]
    /\ node_4_results = <<>>
    /\ merge_calls = <<>>
    /\ merge_outcome = NoOutcome
    /\ tenancy_tasks = NoFanOut

\* The options of the input that go to target k, in their order.
assigned(options, to, k) ==
    LET indices == SelectSeq([i \in DOMAIN options |-> i], LAMBDA i : to[i] = k)
    IN  [i \in DOMAIN indices |-> options[indices[i]]]

\* Node 3 failed, or found up to MaxConfigs configurations; the tenancy
\* options of the input, MaxOptions at most, are those of the configuration
\* of node 4 (target 0) and those that the tasks of the fan-out return
\* (target k is the k-th task); async_engine.py has no fan-out.
InitTenancies ==
    /\ InitIdle
    /\ \E names \in SeqsUpTo(ConfigNames, MaxConfigs),
          node_3 \in {"ok", "failed"},
          options \in SeqsUpTo(TenancyOptions, MaxOptions),
          n4_name \in ConfigNames :
          LET configurations == [i \in DOMAIN names |-> Configuration(names[i])]
              fanned == unique_configs(configurations, {})
              targets == IF app = "main_memory" THEN 0..Len(fanned) ELSE {0}
          IN  \E to \in [DOMAIN options -> targets] :
                  /\ node_3 = "failed" => app = "main_memory" /\ names = <<>>
                  /\ successful_data =
                         [basic_info |-> [f \in FieldNames |-> <<"A">>],
                          property_level |-> [f \in FieldNames |-> <<>>],
                          configurations |-> configurations,
                          n4_configurations |->
                              IF assigned(options, to, 0) = <<>> THEN <<>>
                              ELSE <<[name |-> n4_name,
                                      tenancy_options |->
                                          assigned(options, to, 0)]>>]
                  /\ tenancy_tasks =
                         [NoFanOut EXCEPT
                             !.node_3 = node_3,
                             !.replies = [k \in DOMAIN fanned |->
                                             assigned(options, to, k)]]
    /\ node_4_results = <<>>
    /\ merge_calls = <<>>
    /\ merge_outcome = NoOutcome

NextMerge ==
    \/ merge_node_data_call
    \/ orchestrate_extraction_merge
    \/ fan_out_create
    \/ \E k \in 1..MaxConfigs : fan_out_store(k)
    \/ merge_extraction_results_call

\* Node 3 found no configuration: the fan-out has no task.
NextConflicts ==
    \/ merge_node_data_call
    \/ orchestrate_extraction_merge
    \/ fan_out_create
    \/ merge_extraction_results_call

SpecConflicts == InitConflicts /\ [][NextConflicts]_vars

SpecTenancies == InitTenancies /\ [][NextMerge]_vars

\* The engine of main_memory.py assigning to the node records of a job on
\* the thread of the queue while a thread of the server answers queries.
InitRecords == Init /\ app = "main_memory"

NextRecords ==
    \/ \E n \in RecordNodes : record_status_running(n)
    \/ \E n \in RecordNodes : record_start_time(n)
    \/ \E n \in RecordNodes : record_status_completed(n)
    \/ \E n \in RecordNodes : record_end_time(n)
    \/ \E n \in RecordNodes : record_extracted_data(n)
    \/ \E n \in RecordNodes : record_status_failed(n)
    \/ \E n \in RecordNodes : record_failed_end_time(n)
    \/ get_job_progress

SpecRecords == InitRecords /\ [][NextRecords]_vars

\* ProgressTracker while it is called for one job.
InitTracker == Init /\ app = "main"

NextTracker ==
    \/ start_job_tracking
    \/ \E status \in {"in_progress", "completed", "failed"} : update_job_status(status)
    \/ \E n \in DOMAIN node_weights, status \in {"running", "completed", "failed"},
          retry_count \in {0, 1} : update_node_status(n, status, retry_count)
    \/ \E phase \in TrackedPhases : update_phase(phase)

SpecTracker == InitTracker /\ [][NextTracker]_vars

\* main_memory.py while two retry requests are served on two threads; the
\* jobs are submitted with the default priority and none is cancelled.
InitRetries == Init /\ app = "main_memory"

NextRetries ==
    \/ \E j \in MemJobIds : submit_create(j, "normal")
    \/ submit_enqueue
    \/ submit_event
    \/ \E j \in MemJobIds : retry_reset(j)
    \/ retry_enqueue
    \/ retry_event
    \/ process_queue
    \/ \E t \in tasks : process_job_start(t)
    \/ \E t \in tasks, r \in EngineResults : process_job_finish(t, r)
    \/ worker_manager
    \/ \E j \in MemJobIds : second_retry_check(j)
    \/ second_retry_reset
    \/ second_retry_enqueue
    \/ second_retry_event

SpecRetries == InitRetries /\ [][NextRetries]_vars

\* main_memory.py while one job fails and is retried by hand again and
\* again, a second retry request being served on another thread.
MaxManualRetries == 4

NextManualRetries ==
    \/ submit_create(1, "normal")
    \/ submit_enqueue
    \/ submit_event
    \/ retry_reset_upto(1, MaxManualRetries)
    \/ retry_enqueue
    \/ retry_event
    \/ process_queue
    \/ \E t \in tasks : process_job_start(t)
    \/ \E t \in tasks, r \in EngineResults : process_job_finish(t, r)
    \/ second_retry_check(1)
    \/ second_retry_reset
    \/ second_retry_enqueue
    \/ second_retry_event

SpecManualRetries == InitRetries /\ [][NextManualRetries]_vars

\* ---- order of service ---------------------------------------------------

\* The jobs of a heap in the order in which repeated _get_next_job calls
\* (heapq.heappop) hand them out.
RECURSIVE heap_drain(_)
heap_drain(heap) ==
    IF heap = <<>> THEN <<>>
    ELSE <<heappop_item(heap)>> \o heap_drain(heappop_rest(heap))

\* a is served strictly before b: higher priority, or the same priority and
\* an earlier scheduled (else enqueue) time.
ServedBefore(a, b) ==
    \/ a.priority > b.priority
    \/ a.priority = b.priority /\ scheduled(a) < scheduled(b)

DrainInOrder ==
    LET d == heap_drain(db_queue)
    IN  \A i \in 1..Len(d) : \A k \in (i + 1)..Len(d) : ~ServedBefore(d[k], d[i])

StoreQueueInOrder ==
    \A i \in 1..Len(ms_queue) : \A k \in (i + 1)..Len(ms_queue) :
        priority_order(ms_jobs[ms_queue[i]].priority)
            <= priority_order(ms_jobs[ms_queue[k]].priority)

\* The job a step of the worker loop starts is one no queued job is to be
\* served before.
StartsTheFirst ==
    worker_loop_start =>
        \A t \in db_running_jobs' :
            t.job_id \notin running_ids =>
                \A i \in 1..Len(db_queue') : ~ServedBefore(db_queue'[i], t)

\* The job the dispatcher of the store takes is of a priority no queued job
\* exceeds, and a job enters the queue behind the queued jobs of its own
\* priority.
TakesTheFirst ==
    /\ process_queue =>
          \A j \in ms_running_jobs' \ ms_running_jobs :
              \A i \in 1..Len(ms_queue') :
                  priority_order(ms_jobs[j].priority)
                      <= priority_order(ms_jobs[ms_queue'[i]].priority)
    /\ (submit_enqueue \/ retry_enqueue) =>
          \A i \in 1..Len(ms_queue') :
              ms_queue'[i] = request.job_id =>
                  /\ \A k \in 1..(i - 1) :
                        priority_order(ms_jobs[ms_queue'[k]].priority)
                            <= priority_order(ms_jobs[request.job_id].priority)
                  /\ \A k \in (i + 1)..Len(ms_queue') :
                        priority_order(ms_jobs[ms_queue'[k]].priority)
                            > priority_order(ms_jobs[request.job_id].priority)
                  /\ del_at(ms_queue', i) = ms_queue

\* C1: both queues hand out jobs by descending priority and, within one
\* priority, by ascending scheduled (else enqueue) time: the heap of
\* JobQueue drains in that order and the job the worker loop starts is
\* first in it; the queue of the MemoryStore is kept in priority order, a
\* job enters it behind the jobs of its own priority and the dispatcher
\* takes its head.
C1_PriorityOrder ==
    /\ [](DrainInOrder /\ StoreQueueInOrder)
    /\ [][StartsTheFirst /\ TakesTheFirst]_vars

\* A low, an urgent and a normal job, enqueued in this order, are queued
\* together and drain as urgent, normal, low.
C1_Witness ==
    /\ Len(db_queue) = 3
    /\ LET d == heap_drain(db_queue)
       IN  /\ d[1].priority = URGENT /\ d[2].priority = NORMAL
           /\ d[3].priority = LOW
           /\ d[3].created_at <= d[1].created_at
           /\ d[1].created_at <= d[2].created_at

\* ---- concurrency limit --------------------------------------------------

WithinTheLimit ==
    /\ Cardinality(db_running_jobs) <= max_concurrent_jobs
    /\ Cardinality({t.job_id : t \in db_running_jobs}) <= max_concurrent_jobs
    /\ Cardinality({w \in workers : w.current_job_id # None})
           <= mem_max_concurrent_jobs
    /\ Cardinality(tasks) <= mem_max_concurrent_jobs

\* With the pool full no step starts a job and the queued jobs stay where
\* they are unless dequeue_job takes one out by its id.
FullPoolStartsNothing ==
    /\ Cardinality(db_running_jobs) >= max_concurrent_jobs =>
          /\ db_running_jobs' \subseteq db_running_jobs
          /\ (\A j \in JobIds : ~dequeue_job(j)) =>
                queued_ids(db_queue) \subseteq queued_ids(db_queue')
    /\ Cardinality({w \in workers : w.current_job_id # None})
           >= mem_max_concurrent_jobs =>
          /\ {t.job_id : t \in tasks'} \subseteq {t.job_id : t \in tasks}
          /\ ms_running_jobs' \subseteq ms_running_jobs
          /\ seq_ids(ms_queue) \subseteq seq_ids(ms_queue')

Occurrences(q, job_id) ==
    Cardinality({i \in 1..Len(q) : q[i].job_id = job_id})

\* The steps that leave db_returned.op = "enqueue_job" are the calls of
\* enqueue_job, and job_id is the id the call was made with.
EnqueueContract(job_id) ==
    IF \/ Len(db_queue) >= max_queue_size
       \/ \E i \in 1..Len(db_queue) : db_queue[i].job_id = job_id
       \/ \E t \in db_running_jobs : t.job_id = job_id
    THEN /\ db_returned' = Returned("enqueue_job", job_id, FALSE)
         /\ db_queue' = db_queue
    ELSE /\ db_returned' = Returned("enqueue_job", job_id, TRUE)
         /\ Occurrences(db_queue', job_id) = 1
         /\ Len(db_queue') = Len(db_queue) + 1

\* A request of the memory application that enqueues a job leaves the job
\* in the queue of the store exactly once.
StoreEnqueuesOnce ==
    (submit_enqueue \/ retry_enqueue) =>
        Cardinality({i \in 1..Len(ms_queue') : ms_queue'[i] = request.job_id}) = 1

BackoffSeconds(retry_count) ==
    LET d == 30 * (2 ^ (retry_count - 1)) IN IF d > 300 THEN 300 ELSE d

\* What the failure of the running job t of JobQueue has to leave behind.
HeapRetryOrFail(t) ==
    IF t.retry_count < t.max_retries
    THEN /\ Occurrences(db_queue', t.job_id) = 1
         /\ \E i \in 1..Len(db_queue') :
               db_queue'[i] =
                   [t EXCEPT !.retry_count = t.retry_count + 1,
                             !.scheduled_at =
                                 now + BackoffSeconds(t.retry_count + 1)]
         /\ t.job_id \notin {f.job_id : f \in db_failed_jobs'}
    ELSE /\ t.job_id \in {f.job_id : f \in db_failed_jobs'}
         /\ t.job_id \notin queued_ids(db_queue')
         /\ \A s \in db_job_failed_callbacks : t.job_id \in db_failure_calls'[s]

\* What the failure of the job of task t of JobQueueMemory has to leave
\* behind.
StoreRetryOrFail(t) ==
    IF ms_jobs[t.job_id].retry_count < ms_jobs[t.job_id].max_retries
    THEN /\ ms_jobs'[t.job_id].retry_count = ms_jobs[t.job_id].retry_count + 1
         /\ t.job_id \in seq_ids(ms_queue')
         /\ ms_jobs'[t.job_id].status # "failed"
    ELSE ms_jobs'[t.job_id].status = "failed"

\* A job of JobQueue that failed for good was executed max_retries + 1
\* times.
FailedAfterAllAttempts ==
    \A f \in db_failed_jobs :
        f.executions = f.max_retries + 1 /\ f.retry_count = f.max_retries

\* The retry policy on JobQueue alone.
JobQueueRetries ==
    /\ []FailedAfterAllAttempts
    /\ [][\A t \in db_running_jobs : job_failure(t) => HeapRetryOrFail(t)]_vars

\* A job of JobQueue failed for good after max_retries + 1 executions and
\* the failure subscribers were called with it.
JobQueueRetriesWitness ==
    \E f \in db_failed_jobs :
        /\ f.executions = max_retries + 1
        /\ \A s \in Subscribers : f.job_id \in db_failure_calls[s]

\* C4: when the execution of a job fails and its retry_count is below
\* max_retries, the queue increments retry_count and enqueues the job again
\* for now + min(300, 30 * 2^(retry_count - 1)) seconds; at max_retries the
\* job is failed for good and every failure subscriber is called; a job
\* that always fails is executed max_retries + 1 times.  Stated of JobQueue
\* and of JobQueueMemory.
C4_JobRetry ==
    /\ []FailedAfterAllAttempts
    /\ [][/\ \A t \in db_running_jobs : job_failure(t) => HeapRetryOrFail(t)
          /\ \A t \in tasks :
                (\E r \in EngineResults : ~r.success /\ process_job_finish(t, r))
                    => StoreRetryOrFail(t)]_vars

\* ---- cancellation -------------------------------------------------------

\* C8: a cancelled job stays cancelled: no later step, the arrival of the
\* result or of the failure of its execution included, changes its status
\* or its stored results.
C8_CancelledIsTerminal ==
    [][\A j \in MemJobIds :
          ms_jobs[j].status = "cancelled" =>
              /\ ms_jobs'[j].status = "cancelled"
              /\ ms_jobs'[j].merged_data = ms_jobs[j].merged_data
              /\ ms_jobs'[j].quality_score = ms_jobs[j].quality_score]_vars

\* C9: once the request that cancels a queued job has been served the job
\* is out of the queue, and no cancelled job is taken from the queue, given
\* to a worker or executed.
C9_CancelledLeavesQueue ==
    /\ [](request = Idle =>
            \A j \in MemJobIds :
                ms_jobs[j].status = "cancelled" => j \notin seq_ids(ms_queue))
    /\ [][process_queue => ms_jobs[Head(ms_queue)].status # "cancelled"]_vars

\* ---- retry of a node ----------------------------------------------------

\* The loop is over and no call of the extraction client gave data.
NodeAlwaysFailed ==
    node_loop.pc = "done" /\ node_execution.status # "completed"

\* C5: a node whose extraction fails every time, run with max_retries = N,
\* has been attempted exactly N + 1 times when its loop is over, and ends
\* with status failed and retry_count = N.
C5_NodeRetryExhaustion ==
    NodeAlwaysFailed =>
        /\ node_loop.calls = node_loop.max_retries + 1
        /\ node_execution.status = "failed"
        /\ node_execution.retry_count = node_loop.max_retries

\* The categories the retry policy names.
PolicyCategories == {"timeout", "network", "rate_limit", "json_parse"}

\* What a failed attempt with the error msg is followed by.
AttemptFollowsPolicy(msg) ==
    /\ node_loop'.pc = "sleeping" => categorize_error(msg) \in PolicyCategories
    /\ categorize_error(msg) \notin PolicyCategories =>
          node_loop'.pc = "done" /\ node_execution'.status = "failed"

\* C6: a failed attempt of a node is followed by another attempt only if the
\* category of its error is timeout, network, rate_limit or json_parse; an
\* error of any other category (unknown) fails the node with no further
\* attempt.
C6_RetryByCategory ==
    [][\A msg \in ErrorMessages :
          (execute_node_error(msg)
              \/ \E returned \in BOOLEAN : execute_single_node_error(msg, returned))
          => AttemptFollowsPolicy(msg)]_vars

\* The policy of C6 on the engine of the memory application alone.
MemoryEngineRetriesByCategory ==
    [][\A msg \in ErrorMessages :
          execute_node_error(msg) => AttemptFollowsPolicy(msg)]_vars

\* The outcome of C5 on the engine of the memory application when every
\* error is of a category of the policy.
MemoryEngineExhaustsRetries ==
    (app = "main_memory" /\ NodeAlwaysFailed
        /\ node_execution.error_category \in PolicyCategories)
    => /\ node_loop.calls = node_loop.max_retries + 1
       /\ node_execution.status = "failed"
       /\ node_execution.retry_count = node_loop.max_retries

\* ---- progress -----------------------------------------------------------

\* C7: the percentages of the progress events recorded for a job, those of
\* the progress callback and those of the queue and of the routes, never
\* decrease from one event of the job to the next.
C7_ProgressNeverDecreases ==
    \A j \in MemJobIds :
        \A i \in 1..(Len(ms_progress_events[j]) - 1) :
            ms_progress_events[j][i].progress_percentage
                <= ms_progress_events[j][i + 1].progress_percentage

\* The steps of the engine, which report through the progress callback,
\* never lower the percentage of a job.
CallbackNeverLowers ==
    [][(\E t \in tasks :
           \/ \E n \in ExtractionNodes :
                 \/ execute_node_begin(t, n)
                 \/ execute_node_end(t, n)
                 \/ \E msg \in ErrorMessages : execute_node_raises(t, n, msg)
           \/ execute_extraction_merge(t)
           \/ execute_extraction_return(t))
       => \A j \in MemJobIds :
             ms_jobs'[j].progress_percentage >= ms_jobs[j].progress_percentage]_vars

\* ---- a job whose nodes all fail -----------------------------------------

\* C10: when every one of the four extraction nodes of a job has failed,
\* the job ends with status failed, with no merged data (none, or the empty
\* structure) and with a quality score of 0.0.
C10_AllNodesFailed ==
    [][\A t \in tasks :
          (execute_extraction_return(t)
              /\ \A n \in ExtractionNodes : engine.results[n] = "failed")
          => /\ ms_jobs'[t.job_id].status = "failed"
             /\ ms_jobs'[t.job_id].merged_data
                    \in {NoneData, merge_node_data({})}
             /\ ms_jobs'[t.job_id].quality_score = 0]_vars

\* What the memory application does keep of C10: no merged data and a
\* quality score of 0.0.
AllNodesFailedLeavesNoData ==
    [][\A t \in tasks :
          (execute_extraction_return(t)
              /\ \A n \in ExtractionNodes : engine.results[n] = "failed")
          => /\ ms_jobs'[t.job_id].merged_data
                    \in {NoneData, merge_node_data({})}
             /\ ms_jobs'[t.job_id].quality_score = 0]_vars

\* ---- a job some of whose nodes fail --------------------------------------

\* Some node of the run succeeded and some node failed.
PartialSuccess ==
    /\ \E n \in ExtractionNodes : engine.results[n] = "ok"
    /\ \E n \in ExtractionNodes : engine.results[n] = "failed"

\* The merged record merged holds the output of node n exactly when the
\* node execution of n is COMPLETED.
MergedFromCompleted(merged) ==
    /\ DOMAIN merged = ExtractionNodes
    /\ \A n \in ExtractionNodes :
          merged[n] <=> node_executions[engine.base + n].status = "completed"

PartialSuccessOfOrchestration ==
    /\ db_job.status = "completed"
    /\ \E n, k \in ExtractionNodes : db_job.merged_data[n] /\ ~db_job.merged_data[k]

\* ---- the order of the nodes ----------------------------------------------

\* The node execution of node n of the run enters RUNNING in this step.
EntersRunning(n) ==
    /\ engine.pc = "nodes"
    /\ node_executions[engine.base + n].status # "running"
    /\ node_executions'[engine.base + n].status = "running"

\* The node execution of node n is COMPLETED or FAILED and n has returned.
HasEnded(n) ==
    /\ node_executions[engine.base + n].status \in {"completed", "failed"}
    /\ node_is_over(n)

\* C12: under the hybrid strategy tenancy_info (node 4) does not enter
\* running until basic_info, description and room_configs (nodes 1, 2, 3)
\* have each reached completed or failed, whatever their outcomes and
\* retries.
C12_HybridLevels ==
    [][(execution_strategy = "hybrid" /\ EntersRunning(4))
          => \A n \in {1, 2, 3} : HasEnded(n)]_vars

\* tenancy_info runs under the hybrid strategy after a node of the first
\* level failed and another succeeded at a later attempt.
C12_Witness ==
    /\ execution_strategy = "hybrid"
    /\ engine.pc = "nodes"
    /\ node_executions[engine.base + 4].status = "running"
    /\ \E n, k \in {1, 2, 3} :
          /\ engine.results[n] = "failed"
          /\ engine.results[k] = "ok" /\ engine.attempt[k] > 0

\* The same in the memory application.
HybridLevelsOfExtraction == app = "main_memory" /\ C12_Witness

\* The same in the database application.
HybridLevelsOfOrchestration == app = "main" /\ C12_Witness

\* The order of the claim: the dependency level first, then the ranking
\* basic_info, room_configs, description, tenancy_info.
RankedOrder == <<1, 3, 2, 4>>

\* Node n enters running after the nodes before it in RankedOrder ended.
StartsInRankedOrder(n) ==
    \A i, k \in DOMAIN RankedOrder :
        (RankedOrder[k] = n /\ i < k) => HasEnded(RankedOrder[i])

\* C13: under the sequential strategy the nodes run one at a time in the
\* order of the dependency levels, ties broken by the ranking basic_info,
\* room_configs, description, tenancy_info: a node enters running only after
\* the nodes before it in that order have reached completed or failed.
C13_SequentialOrder ==
    [][\A n \in ExtractionNodes :
          (execution_strategy = "sequential" /\ EntersRunning(n))
              => StartsInRankedOrder(n)]_vars

\* C13 in the database application alone.
SequentialOrderOfOrchestration ==
    [][\A n \in ExtractionNodes :
          (app = "main" /\ execution_strategy = "sequential" /\ EntersRunning(n))
              => StartsInRankedOrder(n)]_vars

\* What the memory application keeps of C13: one node at a time, tenancy_info
\* last.
SequentialOneAtATime ==
    [][\A n \in ExtractionNodes :
          (app = "main_memory" /\ execution_strategy = "sequential"
              /\ EntersRunning(n))
          => /\ \A k \in ExtractionNodes \ {n} :
                   engine.results[k] = "none" \/ HasEnded(k)
             /\ n = 4 => \A k \in {1, 2, 3} : HasEnded(k)]_vars

\* ---- the status of a node execution --------------------------------------

\* What a step may do to the node execution at index i: leave it, take it
\* from pending to running, from running to completed or failed, or write
\* to it while it is running.
NodeStatusStep(i) ==
    \/ node_executions'[i] = node_executions[i]
    \/ /\ node_executions[i].status = "pending"
       /\ node_executions'[i].status = "running"
    \/ /\ node_executions[i].status = "running"
       /\ node_executions'[i].status \in {"running", "completed", "failed"}

\* C14: the status of a node execution only moves from pending to running
\* and from running to completed or failed, and a node execution that is
\* completed or failed is never modified again, retries included.
C14_NodeStatusMachine ==
    [][\A i \in DOMAIN node_executions : NodeStatusStep(i)]_vars

\* C14 in the memory application alone.
NodeStatusMachineOfExtraction ==
    [][app = "main_memory"
          => \A i \in DOMAIN node_executions : NodeStatusStep(i)]_vars

\* ---- the node tasks of a job at one time --------------------------------

\* The node tasks that have started and not returned: in a call of the
\* extraction or in the backoff between two attempts.
ExecutingNodeTasks ==
    {n \in DOMAIN engine.results : engine.results[n] \in {"running", "sleeping"}}

\* C15: within a job at most max_concurrent_nodes (4) node tasks are
\* executing at any time, the four base nodes and the tenancy tasks of the
\* fan-out counted, under every strategy.
C15_NodeConcurrency == Cardinality(ExecutingNodeTasks) <= max_concurrent_nodes

\* C15 for the four base nodes, in both applications.
BaseNodesWithinLimit ==
    engine.pc = "nodes" => Cardinality(ExecutingNodeTasks) <= max_concurrent_nodes

\* The node executions of the job that are RUNNING may be more than
\* max_concurrent_nodes during the fan-out.
RunningNodeExecutionsWithinLimit ==
    Cardinality({i \in DOMAIN node_executions :
                    node_executions[i].status = "running"}) <= max_concurrent_nodes

\* In the memory application one call of the extraction is in flight at a
\* time.
OneCallInFlight ==
    app = "main_memory" =>
        Cardinality({n \in DOMAIN engine.results : engine.results[n] = "running"}) <= 1

\* ---- jobs scheduled for later -------------------------------------------

\* The entries of the heap that are scheduled for later than now.
ScheduledLater ==
    {i \in DOMAIN db_queue :
        db_queue[i].scheduled_at # None /\ db_queue[i].scheduled_at > now}

StartedAfterBackoff ==
    \E t \in db_running_jobs : t.retry_count > 0 /\ t.scheduled_at <= now

\* ---- the timeout of a node ----------------------------------------------

\* C17: a node that enters running eventually reaches completed or failed,
\* even when a call of the extraction never returns: the attempt ends as a
\* failure of the category timeout when the timeout of the node has passed.
C17_NodeTerminates ==
    (node_execution.status = "running")
        ~> (node_execution.status \in {"completed", "failed"})

\* A running node does end when every call of the extraction returns.
NodeTerminatesWhenCallsReturn ==
    (node_execution.status = "running")
        ~> (node_execution.status \in {"completed", "failed"}
               \/ node_loop.pc = "hung")

\* A call that is out is never ended by the loop of the node.
HungStaysHung ==
    [][node_loop.pc = "hung" => node_loop'.pc = "hung"]_vars

\* ---- the log of progress events ------------------------------------------

\* The log of job j after a step begins with the log before it.
LogGrows(j) ==
    /\ Len(ms_progress_events'[j]) >= Len(ms_progress_events[j])
    /\ SubSeq(ms_progress_events'[j], 1, Len(ms_progress_events[j]))
           = ms_progress_events[j]

\* The submission of a job comes before every other transition of the job,
\* so its event is the first of the log.
SubmittedFirst(events) ==
    events # <<>> => events[1].event_type = "job_submitted"

\* C18: the progress events of a job are appended in the order of the
\* transitions that trigger them, and the log only grows: no event of the
\* log is changed, reordered or removed.
C18_EventsInOrder ==
    [][\A j \in MemJobIds :
          LogGrows(j) /\ SubmittedFirst(ms_progress_events'[j])]_vars

\* What the memory application keeps of C18: the log only grows.
LogOnlyGrows == [][\A j \in MemJobIds : LogGrows(j)]_vars

\* ... and the events of the loop of the queue come in the order of its
\* transitions: "job_started" before the "job_completed" or "job_failed" of
\* the same run.
StartedBeforeFinished ==
    \A j \in MemJobIds :
        \A i \in DOMAIN ms_progress_events[j] :
            ms_progress_events[j][i].event_type \in {"job_completed", "job_failed"}
            => \E k \in 1..(i - 1) :
                  ms_progress_events[j][k].event_type = "job_started"

\* ---- the event loop during a call of the extraction ----------------------

\* A call of the extraction is in flight under the parallel strategy, whose
\* tasks are created together, and a node has not started yet.
SiblingWaits ==
    /\ execution_strategy = "parallel"
    /\ engine.pc = "nodes"
    /\ \E n \in ExtractionNodes : engine.results[n] = "running"
    /\ \E k \in ExtractionNodes : engine.results[k] = "none"

\* Some node that has not started can start now.
SiblingCanStart ==
    \E k \in ExtractionNodes :
        \/ ENABLED (\E t \in tasks : execute_node_begin(t, k))
        \/ ENABLED execute_single_node_begin(k)

\* C19: while the extraction call of a node is in flight the event loop is
\* not blocked: a sibling node of the job that is ready to start can start
\* before the call returns.
C19_LoopNotBlocked == SiblingWaits => SiblingCanStart

\* C19 in the database application alone.
LoopNotBlockedOfOrchestration == (app = "main" /\ SiblingWaits) => SiblingCanStart

\* In the memory application no node starts and the loop of the queue
\* starts no job while a call is in flight.
LoopBlockedOfExtraction ==
    [][(app = "main_memory" /\ ~event_loop_free)
          => /\ tasks' = tasks
             /\ DOMAIN engine'.results = DOMAIN engine.results
             /\ \A k \in DOMAIN engine.results :
                   engine.results[k] = "none" => engine'.results[k] = "none"]_vars
\* C20: no job is executed by two workers at the same time: in every
\* reachable state a job id is the current job of at most one worker of
\* JobQueueMemory and has at most one task in flight in JobQueue, whatever
\* the interleaving of submit, retry, cancel, dequeue and completion.
WorkersOf(job_id) == {w \in workers : w.current_job_id = job_id}

C20_OneWorkerPerJob ==
    /\ \A j \in MemJobIds : Cardinality(WorkersOf(j)) <= 1
    /\ \A j \in JobIds :
          Cardinality({t \in db_running_jobs : t.job_id = j}) <= 1

\* While the retry requests of a job come one after the other, the job is
\* the current job of at most one worker.
OneWorkerPerJobOneRequest ==
    second_request = Idle =>
        \A j \in MemJobIds : Cardinality(WorkersOf(j)) <= 1

\* _start_job_execution of JobQueue never starts a job that has a task in
\* flight.
StartsNoRunningJob ==
    [][\A t \in db_running_jobs' \ db_running_jobs :
          t.job_id \notin running_ids]_vars

\* C21: every worker that is assigned a job is eventually released, its
\* current job cleared and the job out of the running set, whether the job
\* completes or fails, provided the call of the engine returns; the slot is
\* then free for the next queued job.
HasJob(worker_id) ==
    \E w \in workers : w.worker_id = worker_id /\ w.current_job_id # None

C21_WorkerReleased ==
    /\ \A w \in WorkerIds : HasJob(w) ~> ~HasJob(w)
    /\ \A j \in MemJobIds : (j \in ms_running_jobs) ~> (j \notin ms_running_jobs)
    /\ \A j \in JobIds : (j \in running_ids) ~> (j \notin running_ids)

\* A worker was released after a job that failed and the job is out of the
\* running set.
C21_Witness ==
    /\ \E w \in workers : w.current_job_id = None
    /\ \E j \in MemJobIds : ms_jobs[j].status = "failed"
    /\ ms_running_jobs = {}

\* A job that waits in the queue while a worker slot is free is taken.
FreeSlotIsUsed ==
    (ms_queue # <<>> /\ Cardinality(active_workers) < mem_max_concurrent_jobs)
        => ENABLED process_queue

\* C22: the merge is idempotent: merge_node_data called twice on the same
\* input objects returns the same merged record and the same counts of
\* conflicts found and resolved.
C22_MergeIdempotent ==
    Len(merge_calls) = 2 =>
        /\ merge_calls[2].result.merged_data = merge_calls[1].result.merged_data
        /\ merge_calls[2].result.conflicts_found =
               merge_calls[1].result.conflicts_found
        /\ merge_calls[2].result.conflicts_resolved =
               merge_calls[1].result.conflicts_resolved

\* The two calls return the same merged record.
MergedRecordsIdentical ==
    Len(merge_calls) = 2 =>
        merge_calls[2].result.merged_data = merge_calls[1].result.merged_data

\* The two calls count the same conflicts when the first call wrote nothing
\* to the basic_info of node 1.
CountsIdenticalUnlessWritten ==
    (Len(merge_calls) = 2 /\ merge_calls[2].input = merge_calls[1].input) =>
        merge_calls[2].result = merge_calls[1].result

\* C23: a field that basic_info and the property_level of the tenancy node
\* both fill with different values keeps the value of basic_info in the
\* merged record (a value such as "A", not a blank one) and adds one to
\* the conflicts found and one to the conflicts resolved; a field with
\* equal values, or empty on one side, adds nothing.
Conflicting(call) ==
    {f \in FieldNames :
        /\ call.input.basic_info[f] # <<>>
        /\ call.input.property_level[f] # <<>>
        /\ call.input.basic_info[f] # call.input.property_level[f]}

Filled(value) == strip(value, {" "}) # <<>>

C23_ConflictCounted ==
    \A i \in DOMAIN merge_calls :
        LET call == merge_calls[i]
        IN  call.result.success =>
                /\ call.result.conflicts_found = Cardinality(Conflicting(call))
                /\ call.result.conflicts_resolved = Cardinality(Conflicting(call))
                /\ \A f \in Conflicting(call) :
                      Filled(call.input.basic_info[f]) =>
                          call.result.merged_data.basic_info[f] =
                              call.input.basic_info[f]

\* A merge of a name "A" with a name "B" of the tenancy node, and of a
\* source that the two nodes give alike: one conflict, the name is "A".
C23_Witness ==
    \E i \in DOMAIN merge_calls :
        /\ merge_calls[i].result.success
        /\ merge_calls[i].input.basic_info.name = <<"A">>
        /\ merge_calls[i].input.property_level.name = <<"B">>
        /\ merge_calls[i].input.basic_info.source = <<"A">>
        /\ merge_calls[i].input.property_level.source = <<"A">>
        /\ merge_calls[i].input.property_level.source_link = <<>>
        /\ merge_calls[i].result.conflicts_found = 1
        /\ merge_calls[i].result.merged_data.basic_info.name = <<"A">>

\* C24: for each of the fields name, guarantor_required, source and
\* source_link, the merged basic_info takes the value of the property_level
\* of the tenancy node when the value of basic_info is empty and that of the
\* tenancy node is not, and keeps the value of basic_info when it is not
\* empty.
C24_EmptyFallsBack ==
    \A i \in DOMAIN merge_calls :
        LET call == merge_calls[i]
        IN  call.result.success =>
                \A f \in FieldNames :
                    /\ (~Filled(call.input.basic_info[f])
                            /\ call.input.property_level[f] # <<>>)
                           => call.result.merged_data.basic_info[f] =
                                  call.input.property_level[f]
                    /\ Filled(call.input.basic_info[f])
                           => call.result.merged_data.basic_info[f] =
                                  call.input.basic_info[f]

\* A value of basic_info that is not blank is kept.
FilledValueKept ==
    \A i \in DOMAIN merge_calls :
        merge_calls[i].result.success =>
            \A f \in FieldNames :
                Filled(merge_calls[i].input.basic_info[f])
                    => merge_calls[i].result.merged_data.basic_info[f] =
                           merge_calls[i].input.basic_info[f]

\* A value of basic_info that is made of blanks gives way to the value of
\* the tenancy node; one that is the empty string stays empty.
BlankFallsBackEmptyStays ==
    \A i \in DOMAIN merge_calls :
        merge_calls[i].result.success =>
            \A f \in FieldNames :
                LET node1_value == merge_calls[i].input.basic_info[f]
                    node4_value == merge_calls[i].input.property_level[f]
                    merged_value == merge_calls[i].result.merged_data.basic_info[f]
                IN  /\ (node1_value = <<" ">> /\ node4_value # <<>>)
                           => merged_value = node4_value
                    /\ node1_value = <<>> => merged_value = <<>>

\* C25: after the merge the tenancy options attached to a configuration
\* hold no two entries of the same duration and price: of two options of
\* the same duration and price that differ elsewhere one is retained, and
\* two options that differ in the duration or in the price are both
\* retained.
Merged == merge_outcome # NoOutcome /\ merge_calls[1].result.success

Keys(options) == {tenancy_key(options[i]) : i \in DOMAIN options}

NoTwoOfAKey(options) ==
    \A i, k \in DOMAIN options :
        tenancy_key(options[i]) = tenancy_key(options[k]) => i = k

NoDuplicateOptions ==
    Merged =>
        \A i \in DOMAIN merge_outcome.merged_data.configurations :
            /\ NoTwoOfAKey(merge_outcome.merged_data.configurations[i].tenancy_options)
            /\ NoTwoOfAKey(merge_outcome.merged_data.configurations[i].tenancies)

\* The options of a configuration of node 4 that has a target among the
\* configurations of node 3 are in the merged record, one of each duration
\* and price.
OptionsOfNode4Retained ==
    Merged =>
        LET input == merge_calls[1].input
            cfgs == merge_outcome.merged_data.configurations
        IN  \A n \in DOMAIN input.n4_configurations :
                cfg_by_name(input.configurations,
                            norm_name(input.n4_configurations[n].name)) # 0
                    => Keys(input.n4_configurations[n].tenancy_options) \subseteq
                           UNION {Keys(cfgs[i].tenancy_options) : i \in DOMAIN cfgs}

\* The options of a result of the fan-out that has a target among the
\* merged configurations are on that configuration, one of each duration
\* and price.
OptionsOfFanOutRetained ==
    Merged =>
        LET cfgs == merge_outcome.merged_data.configurations
        IN  \A r \in DOMAIN node_4_results :
                LET target == config_map(cfgs,
                                  sub_each(strip(lower(node_4_results[r].cfg_key), {" "}),
                                           {"a", "b", "A", "B"}, "_"))
                IN  target # 0 =>
                        Keys(node_4_results[r].tenancies) \subseteq
                            Keys(cfgs[target].tenancies)

C25_OneOptionPerDurationAndPrice ==
    /\ NoDuplicateOptions
    /\ OptionsOfNode4Retained
    /\ OptionsOfFanOutRetained

\* The fan-out retains one option of each duration.
DurationsOfFanOutRetained ==
    Merged =>
        LET cfgs == merge_outcome.merged_data.configurations
            durations(options) ==
                {options[i].tenancy_length_weeks : i \in DOMAIN options}
        IN  \A r \in DOMAIN node_4_results :
                LET target == config_map(cfgs,
                                  sub_each(strip(lower(node_4_results[r].cfg_key), {" "}),
                                           {"a", "b", "A", "B"}, "_"))
                IN  target # 0 =>
                        /\ durations(node_4_results[r].tenancies) \subseteq
                               durations(cfgs[target].tenancies)
                        /\ \A i, k \in DOMAIN cfgs[target].tenancies :
                               cfgs[target].tenancies[i].tenancy_length_weeks =
                                   cfgs[target].tenancies[k].tenancy_length_weeks
                                       => i = k

\* C26: every configuration of the merged record that has tenancy options
\* attached has for minimum and maximum price the least and the greatest
\* price of these options, whatever Pricing the model gave; a single
\* configuration with one fanned-out option at 150 has one option and a
\* minimum and a maximum of 150.
PricesOf(options) == {options[i].price_per_week : i \in DOMAIN options}

C26_MinMaxFromOptions ==
    Merged =>
        \A i \in DOMAIN merge_outcome.merged_data.configurations :
            LET cfg == merge_outcome.merged_data.configurations[i]
                prices == PricesOf(cfg.tenancy_options) \cup PricesOf(cfg.tenancies)
            IN  prices # {} =>
                    /\ cfg.min_price = Min(prices)
                    /\ cfg.max_price = Max(prices)

\* The minimum and the maximum of a configuration are those of the options
\* that merge_node_data attached to it.
MinMaxFromOptionsOfNode4 ==
    Merged =>
        \A i \in DOMAIN merge_outcome.merged_data.configurations :
            LET cfg == merge_outcome.merged_data.configurations[i]
            IN  cfg.tenancy_options # <<>> =>
                    /\ cfg.min_price = Min(PricesOf(cfg.tenancy_options))
                    /\ cfg.max_price = Max(PricesOf(cfg.tenancy_options))

\* A configuration that has the options of the fan-out alone keeps the
\* Pricing of the model.
FanOutKeepsModelPrice ==
    Merged =>
        \A i \in DOMAIN merge_outcome.merged_data.configurations :
            LET cfg == merge_outcome.merged_data.configurations[i]
            IN  cfg.tenancy_options = <<>> =>
                    cfg.min_price = ModelPrice /\ cfg.max_price = ModelPrice

\* C27: when the merge fails while a node succeeded, the job does not fail:
\* it ends completed, its result carries the outputs of the successful
\* nodes unmerged (as the merged data of async_engine.py, as the extracted
\* data of async_engine_memory.py) and its quality score is reduced and
\* not zero.
MergeFailedSoft == merge_outcome # NoOutcome /\ ~merge_calls[1].result.success

EmptyMergedDataOfExtraction ==
    (MergeFailedSoft /\ app = "main_memory") =>
        /\ merge_outcome.merged_data = NoneData
        /\ merge_outcome.quality_score = (800 * 7) \div 10

\* C29: the fan-out creates one tenancy node execution for each distinct
\* configuration name that node 3 returned, the names compared without
\* their case and their outer blanks; each result is stored under a key of
\* its own; no node execution is created when node 3 failed or returned no
\* configuration.
DistinctNames ==
    {strip(lower(successful_data.configurations[i].name), {" "}) :
        i \in DOMAIN successful_data.configurations}

FannedOut ==
    /\ tenancy_tasks.created
    /\ \A k \in DOMAIN tenancy_tasks.tasks : tenancy_tasks.tasks[k].stored

OneTaskPerDistinctName ==
    tenancy_tasks.created =>
        /\ Len(tenancy_tasks.tasks) =
               IF tenancy_tasks.node_3 = "ok" THEN Cardinality(DistinctNames)
               ELSE 0
        /\ \A i, k \in DOMAIN tenancy_tasks.tasks :
               strip(lower(tenancy_tasks.tasks[i].cfg_name), {" "}) =
                   strip(lower(tenancy_tasks.tasks[k].cfg_name), {" "}) => i = k

ResultUnderItsOwnKey ==
    FannedOut =>
        \A k \in DOMAIN tenancy_tasks.tasks :
            \E r \in DOMAIN node_4_results :
                /\ node_4_results[r].cfg_key = tenancy_tasks.tasks[k].cfg_key
                /\ node_4_results[r].tenancies = tenancy_tasks.replies[k]

C29_OneTaskAndKeyPerName ==
    /\ OneTaskPerDistinctName
    /\ ResultUnderItsOwnKey

\* The results of tasks whose names give different keys are all stored.
ResultUnderItsKeyWhenKeysDiffer ==
    (/\ FannedOut
     /\ \A i, k \in DOMAIN tenancy_tasks.tasks :
           tenancy_tasks.tasks[i].cfg_key = tenancy_tasks.tasks[k].cfg_key => i = k)
        => ResultUnderItsOwnKey

\* C28: during the fan-out at most max_concurrent (3) tenancy tasks are
\* executing at the same time, whatever the number of configurations: a
\* fourth task starts only after one of the three has finished.
ExecutingTenancyTasks ==
    {n \in TenancyTasks : engine.results[n] \in {"running", "sleeping"}}

C28_TenancyConcurrency == Cardinality(ExecutingTenancyTasks) <= max_concurrent

\* execute_extraction waits for at most max_concurrent tasks at a time.
AwaitedTasksWithinLimit ==
    engine.pc = "fan_out" => Cardinality(active_tasks) <= max_concurrent

\* At most one tenancy task is in its call of the extraction at a time.
OneTenancyCallInFlight ==
    Cardinality({n \in TenancyTasks : engine.results[n] = "running"}) <= 1

\* C30: a worker of JobQueue pulls the next eligible job: whenever a worker
\* slot is free and the queue holds a job whose scheduled time has elapsed,
\* a job can be started, and the job that is started is the first, in the
\* order of the priorities, of the jobs whose time has elapsed, even when a
\* job of a higher priority that is scheduled for later (one that waits out
\* its retry backoff) is in the queue.
DueJobs == {i \in DOMAIN db_queue : ~scheduled_later(db_queue[i])}

SlotFreeAndJobDue ==
    app = "main" /\ ~pool_is_full(running_ids) /\ DueJobs # {}

\* The job that is started is before every job of the queue that is due.
StartsFirstDueJob ==
    [][\A t \in db_running_jobs' \ db_running_jobs :
          \A i \in DueJobs : ~QueuedJob_lt(db_queue[i], t)]_vars

C30_NextEligibleJob ==
    /\ [](SlotFreeAndJobDue => ENABLED worker_loop_start)
    /\ StartsFirstDueJob

\* A job is due and a slot is free while a job of a higher priority that
\* waits out its retry backoff is at the top of the heap.
DueBehindBackoff ==
    /\ SlotFreeAndJobDue
    /\ heappop_item(db_queue).retry_count > 0
    /\ scheduled_later(heappop_item(db_queue))
    /\ \E i \in DueJobs : db_queue[i].priority < heappop_item(db_queue).priority

\* While the job at the top of the heap is scheduled for later no job is
\* started.
NoStartBehindLaterJob ==
    [][(app = "main" /\ db_queue # <<>> /\ scheduled_later(heappop_item(db_queue)))
          => db_running_jobs' \subseteq db_running_jobs]_vars

\* When the job at the top of the heap is due it can be started.
TopDueCanStart ==
    (app = "main" /\ ~pool_is_full(running_ids) /\ db_queue # <<>>
        /\ ~scheduled_later(heappop_item(db_queue)))
        => ENABLED worker_loop_start

\* With a job in its backoff at the top of the heap, no job can be started
\* although a job is due and a slot is free.
BackoffBlocksDueJob == DueBehindBackoff => ~ENABLED worker_loop_start

\* C31: the overall_progress that ProgressTracker aggregates for a job never
\* decreases, whatever the sequence of update_node_status, update_phase and
\* update_job_status calls; in particular it does not drop when a running
\* node becomes failed.
C31_ProgressNeverDecreases ==
    [][job_progress # NoProgress
          => job_progress'.overall_progress >= job_progress.overall_progress]_vars

\* The statuses a node takes in its life: it runs, completes or fails, and
\* runs again after a failure.
node_may_become(old_status, status) ==
    \/ old_status = "pending" /\ status = "running"
    \/ old_status = "running" /\ status \in {"completed", "failed"}
    \/ old_status = "failed" /\ status = "running"
    \/ old_status = status

InLifeCycle ==
    \A n \in DOMAIN node_weights :
        node_may_become(job_progress.nodes[n].status, job_progress'.nodes[n].status)

\* When every node follows its life cycle, the progress drops at no step
\* other than a running node becoming failed.
DropsOnlyWhenRunningNodeFails ==
    [][(job_progress # NoProgress /\ InLifeCycle
           /\ job_progress'.overall_progress < job_progress.overall_progress)
          => \E n \in DOMAIN node_weights :
                 /\ job_progress.nodes[n].status = "running"
                 /\ job_progress'.nodes[n].status = "failed"]_vars

\* A node that fails after it ran leaves a progress below the one reported
\* while it ran: the first node running is 3%, the first node failed is 0%.
FailedNodeCountsForNothing ==
    (/\ job_progress # NoProgress
     /\ job_progress.phases_completed = <<>>
     /\ \A n \in DOMAIN node_weights :
            job_progress.nodes[n].status \in {"pending", "failed"})
        => job_progress.overall_progress = 0

\* C36: once a job is marked completed the progress reported for it is 100
\* and stays 100: the overall_progress of ProgressTracker and the
\* progress_percentage of the store both read 100 while the job is
\* completed, also for a job completed with some nodes failed.
StoreProgressOfCompletedJob ==
    \A j \in DOMAIN ms_jobs :
        ms_jobs[j].status = "completed" => ms_jobs[j].progress_percentage = 1000

C36_CompletedJobReads100 ==
    /\ job_progress.status = "completed" => job_progress.overall_progress = 1000
    /\ StoreProgressOfCompletedJob

\* The tracker reads 100 for a completed job whose nodes are all completed.
TrackerReads100WhenAllNodesCompleted ==
    (/\ job_progress.status = "completed"
     /\ \A n \in DOMAIN node_weights : job_progress.nodes[n].status = "completed")
        => job_progress.overall_progress = 1000

\* For a completed job the tracker reads the weighted progress of its nodes
\* and 10% for the five phases.
TrackerRecalculatesCompletedJob ==
    job_progress.status = "completed"
        => job_progress.overall_progress = calculate_overall_progress(job_progress)

\* The step that marks a job of the store completed leaves its
\* progress_percentage at 100.
MarkedCompletedReads100 ==
    [][\A j \in DOMAIN ms_jobs :
          (ms_jobs[j].status # "completed" /\ ms_jobs'[j].status = "completed")
              => ms_jobs'[j].progress_percentage = 1000]_vars

\* A job of the tracker is completed while one of its nodes is failed.
CompletedWithFailedNode ==
    /\ job_progress.status = "completed"
    /\ \E n \in DOMAIN node_weights : job_progress.nodes[n].status = "failed"
    /\ job_progress.overall_progress < 1000

\* C32: the merge is pure: it leaves the outputs of the nodes that are
\* passed to it unchanged, no key of them being added, removed or
\* overwritten, so that the extracted_data stored with the job are what the
\* nodes returned.
MergeIsCalled == Len(merge_calls') > Len(merge_calls)

C32_MergeLeavesOutputsUnchanged ==
    /\ [][MergeIsCalled => successful_data' = successful_data]_vars
    /\ [](merge_outcome # NoOutcome
             => merge_outcome.extracted_data = merge_calls[1].input)

\* The merge leaves the output of node 4 as it was.
MergeLeavesNode4Unchanged ==
    [][MergeIsCalled
          => /\ successful_data'.property_level = successful_data.property_level
             /\ successful_data'.n4_configurations
                    = successful_data.n4_configurations]_vars

\* The merge writes to the outputs of the nodes what merge_outputs tells,
\* and a merge that fails writes nothing.
MergeWritesInPlace ==
    [][MergeIsCalled
          => /\ successful_data' = merge_outputs(successful_data).written
             /\ (successful_data.basic_info = Null
                    => successful_data' = successful_data)]_vars

\* The basic_info of node 1 after the merge holds a value of node 4 in a
\* field that node 1 returned empty.
Node1OutputOverwritten ==
    /\ merge_calls # <<>>
    /\ merge_calls[1].input.basic_info # Null
    /\ successful_data.basic_info # merge_calls[1].input.basic_info

\* C33: a status or progress query that runs while the engine executes
\* never observes a torn node record: a record read as running has its
\* start_time, a record read as completed or failed has its end_time, and a
\* record read as completed has its extracted_data.
whole(node_exec) ==
    /\ node_exec.status = "running" => node_exec.start_time
    /\ node_exec.status \in {"completed", "failed"} => node_exec.end_time
    /\ node_exec.status = "completed" => node_exec.extracted_data

C33_NoTornRecordObserved ==
    observed # NothingObserved => \A n \in RecordNodes : whole(observed[n])

\* Where _execute_node waits or has returned, its record is whole: the
\* other tasks of the event loop never see a torn record.
WholeWhereNodeWaits ==
    \A n \in RecordNodes :
        node_records[n].pc \in {"created", "calling", "returned"}
            => whole(node_records[n])

\* A record read as completed or failed has its start_time.
StartTimeOfFinishedRecord ==
    observed # NothingObserved
        => \A n \in RecordNodes :
               observed[n].status \in {"completed", "failed"}
                   => observed[n].start_time

\* A query read a record as running that has no start_time.
RunningWithoutStartTime ==
    /\ observed # NothingObserved
    /\ \E n \in RecordNodes :
           observed[n].status = "running" /\ ~observed[n].start_time

\* C34: a job has exactly one NodeExecution for each node type, the
\* fanned-out tenancy instances apart, at every point and also after the job
\* was retried, so that the aggregation of the progress counts each base
\* node once.
base_executions(job_id, n) ==
    {i \in DOMAIN node_executions :
        /\ node_executions[i].job_id = job_id
        /\ node_executions[i].node_type = n
        /\ node_executions[i].config_key = NoKey}

C34_OneNodeExecutionPerType ==
    \A j \in DOMAIN ms_jobs, n \in ExtractionNodes :
        Cardinality(base_executions(j, n)) <= 1

\* Each run of execute_extraction creates one NodeExecution for each node
\* type: a job has as many of each type as the engine was started on it.
SameNumberOfEachType ==
    \A j \in DOMAIN ms_jobs, n \in ExtractionNodes :
        Cardinality(base_executions(j, n)) = Cardinality(base_executions(j, 1))

\* A job that was not retried has at most one NodeExecution of each type.
OnePerTypeUnlessRetried ==
    \A j \in DOMAIN ms_jobs, n \in ExtractionNodes :
        ms_jobs[j].retry_count = 0 => Cardinality(base_executions(j, n)) <= 1

\* No run of the engine removes or replaces a NodeExecution.
NodeExecutionsAreKept ==
    [][/\ Len(node_executions') >= Len(node_executions)
       /\ \A i \in DOMAIN node_executions :
              /\ node_executions'[i].job_id = node_executions[i].job_id
              /\ node_executions'[i].node_type = node_executions[i].node_type]_vars

\* The second run of a retried job counts the eight NodeExecutions of the
\* job in its progress.
RetriedJobCountsEight ==
    \E j \in DOMAIN ms_jobs :
        /\ ms_jobs[j].retry_count = 1
        /\ Cardinality({i \in DOMAIN node_executions :
                           node_executions[i].job_id = j}) = 8

\* C39: for every node execution the event log holds exactly one
\* node_started and exactly one terminal event, node_completed or
\* node_failed and never both, the node_started before the terminal one,
\* whatever the outcome of the node and the number of its retries: of every
\* job and node_id the log holds one node_started for each node execution
\* that was started and one terminal event for each that is over, and no
\* more terminal events than node_started in any prefix of it.
NoEvents == [started |-> 0, completed |-> 0, failed |-> 0, in_order |-> TRUE]

\* The node_started, node_completed and node_failed events of a node_id
\* among the first k events of a job, and whether every prefix of them
\* holds no more terminal events than node_started.
RECURSIVE node_events(_, _, _)
node_events(job_id, node_id, k) ==
    IF k = 0 THEN NoEvents
    ELSE LET e == ms_progress_events[job_id][k]
             before == node_events(job_id, node_id, k - 1)
         IN  IF e.node_id # node_id THEN before
             ELSE IF e.event_type = "node_started"
             THEN [before EXCEPT !.started = @ + 1]
             ELSE IF e.event_type = "node_completed"
             THEN [before EXCEPT
                      !.completed = @ + 1,
                      !.in_order = @ /\ before.completed + before.failed
                                            < before.started]
             ELSE IF e.event_type = "node_failed"
             THEN [before EXCEPT
                      !.failed = @ + 1,
                      !.in_order = @ /\ before.completed + before.failed
                                            < before.started]
             ELSE before

executions_of(job_id, node_id, statuses) ==
    Cardinality({i \in DOMAIN node_executions :
                    /\ node_executions[i].job_id = job_id
                    /\ node_executions[i].node_type = node_id
                    /\ node_executions[i].status \in statuses})

C39_OneStartAndOneTerminalEvent ==
    \A j \in DOMAIN ms_jobs, v \in ExtractionNodes :
        LET logged == node_events(j, v, Len(ms_progress_events[j]))
        IN  /\ logged.started
                   = executions_of(j, v, {"running", "completed", "failed"})
            /\ logged.completed = executions_of(j, v, {"completed"})
            /\ logged.failed = executions_of(j, v, {"failed"})
            /\ logged.in_order

\* A node that failed after a retry has its two events in the log.
C39_Witness ==
    \E i \in DOMAIN node_executions :
        /\ node_executions[i].status = "failed"
        /\ node_executions[i].retry_count > 0
        /\ \E k \in DOMAIN ms_progress_events[node_executions[i].job_id] :
               LET e == ms_progress_events[node_executions[i].job_id][k]
               IN  e.event_type = "node_failed"
                       /\ e.node_id = node_executions[i].node_type

\* C35: the jobs queued in JobQueue never exceed max_queue_size, also after
\* a failed job is re-enqueued for its retry or a job scheduled for later
\* is put back.
C35_QueueWithinMaxSize ==
    app = "main" => Len(db_queue) <= max_queue_size

\* A job that enqueue_job accepts leaves the queue within max_queue_size.
AcceptedWithinMaxSize ==
    [][(db_returned'.op = "enqueue_job" /\ db_returned'.value)
          => Len(db_queue') <= max_queue_size]_vars

\* The queue grows beyond max_queue_size by no step other than the
\* re-enqueue of a running job that failed: a job that is put back leaves
\* the queue as long as it was.
OnlyRetryExceedsMaxSize ==
    [][(Len(db_queue') > max_queue_size /\ Len(db_queue') > Len(db_queue))
          => \E t \in db_running_jobs :
                 /\ t.job_id \notin {r.job_id : r \in db_running_jobs'}
                 /\ t.job_id \in queued_ids(db_queue')]_vars

\* The queue never holds more than max_queue_size and the running jobs
\* that may come back to it.
QueueWithinMaxSizeAndPool ==
    app = "main" => Len(db_queue) <= max_queue_size + max_concurrent_jobs

\* A retry is pushed onto a full queue.
RetryPushedOntoFullQueue ==
    /\ Len(db_queue) > max_queue_size
    /\ \E i \in DOMAIN db_queue : db_queue[i].retry_count > 0

\* C40: the retry_count of a job never exceeds its max_retries, under the
\* automatic re-enqueue of JobQueue as under the manual retry of the route;
\* a retry requested when retry_count = max_retries is rejected and leaves
\* the job as it was.
C40_RetryCountWithinMaxRetries ==
    /\ \A i \in DOMAIN db_queue : db_queue[i].retry_count <= db_queue[i].max_retries
    /\ \A t \in db_running_jobs \cup db_failed_jobs : t.retry_count <= t.max_retries
    /\ \A j \in DOMAIN ms_jobs : ms_jobs[j].retry_count <= ms_jobs[j].max_retries

\* The automatic re-enqueue of JobQueue keeps the retry_count within
\* max_retries.
QueuedRetryCountWithinMaxRetries ==
    /\ \A i \in DOMAIN db_queue : db_queue[i].retry_count <= db_queue[i].max_retries
    /\ \A t \in db_running_jobs \cup db_failed_jobs : t.retry_count <= t.max_retries

\* A job of JobQueue failed for good after max_retries retries.
FailedAfterMaxRetries ==
    \E t \in db_failed_jobs : t.retry_count = t.max_retries

\* A retry requested when retry_count = max_retries is rejected by either
\* thread.
RetryRejectedAtMaxRetries ==
    (app = "main_memory" /\ ms_jobs[1].retry_count >= ms_jobs[1].max_retries)
        => /\ ~ENABLED retry_reset_upto(1, MaxManualRetries)
           /\ ~ENABLED second_retry_check(1)

\* While the retry requests are served one after the other the
\* retry_count stays within max_retries.
OneRequestAtATimeWithinMaxRetries ==
    second_request = Idle
        => \A j \in DOMAIN ms_jobs : ms_jobs[j].retry_count <= ms_jobs[j].max_retries

\* Two requests served together leave a retry_count above max_retries.
RetriedBeyondMaxRetries ==
    /\ second_request # Idle
    /\ ms_jobs[1].retry_count = ms_jobs[1].max_retries + 1

\* C38: the pending_jobs statistic of JobQueue equals the number of queued
\* jobs in every state between two of its operations, and is never
\* negative, after any sequence of enqueue, dequeue_job, dispatch, put-back
\* and retry re-enqueue.
C38_PendingJobsIsQueueLength ==
    app = "main" => (db_pending_jobs = Len(db_queue) /\ db_pending_jobs >= 0)

\* pending_jobs is never above the number of queued jobs.
PendingJobsAtMostQueueLength ==
    app = "main" => db_pending_jobs <= Len(db_queue)

\* pending_jobs and the number of queued jobs move together in every step
\* other than the put-back of a job scheduled for later, which leaves the
\* queue as long as it was and takes one off pending_jobs.
OnlyPutBackMissesPendingJobs ==
    [][(Len(db_queue') - db_pending_jobs' # Len(db_queue) - db_pending_jobs)
          => /\ Len(db_queue') = Len(db_queue)
             /\ db_pending_jobs' = db_pending_jobs - 1
             /\ db_running_jobs' = db_running_jobs
             /\ scheduled_later(heappop_item(db_queue))]_vars

\* pending_jobs is negative: a job was put back and the queue is empty.
NegativePendingJobs == db_pending_jobs < 0 /\ db_queue = <<>>

\* The job has a status before the step and get_job_status returns None
\* for it after the step.
status_is_lost(job_id) ==
    /\ get_job_status(job_id) # "None"
    /\ job_status_in(db_running_jobs', db_completed_jobs', db_failed_jobs',
                     db_queue', job_id) = "None"

\* C37: no accepted job is ever lost by JobQueue: a job that is queued,
\* running, completed or failed keeps a status in every step, stop
\* included, unless dequeue_job removed it (get_job_status never returns
\* None for it).
C37_NoAcceptedJobIsLost ==
    [][\A j \in JobIds :
          status_is_lost(j) => db_returned' = Returned("dequeue_job", j, TRUE)]_vars

\* While the queue is running and after it has stopped no job is lost: a
\* status is lost only in the step in which stop clears _is_running, and
\* only by a job that was running.
OnlyStopLosesRunningJob ==
    [][\A j \in JobIds :
          (status_is_lost(j) /\ db_returned' # Returned("dequeue_job", j, TRUE))
             => /\ db_is_running /\ ~db_is_running'
                /\ get_job_status(j) = "running"]_vars

\* stop leaves the queued jobs and the completed and failed jobs alone.
StopKeepsQueuedAndFinishedJobs ==
    [][(db_is_running /\ ~db_is_running')
          => /\ db_queue' = db_queue
             /\ db_completed_jobs' = db_completed_jobs
             /\ db_failed_jobs' = db_failed_jobs]_vars

\* A step that leaves the queue running loses no job.
NoJobLostWithoutStop ==
    [][\A j \in JobIds :
          (status_is_lost(j) /\ db_is_running')
             => db_returned' = Returned("dequeue_job", j, TRUE)]_vars

\* The queue was stopped and holds no job at all.
StoppedAndEmpty ==
    /\ app = "main" /\ ~db_is_running
    /\ \A j \in JobIds : get_job_status(j) = "None"
    /\ now > 0

====
